---- MODULE Spec2Model ----
(***************************************************************************)
(* Lead pipeline view model of the ai-sdr dashboard.                       *)
(*                                                                         *)
(* One mounted status view (Active Campaigns, Replies & Engagement or      *)
(* Booked Meetings) with its LeadDetailModal, talking to the leads_pipeline*)
(* table through asynchronous repository calls.  A repository call is      *)
(* issued by a handler, processed by the server at some later step and its *)
(* outcome is delivered to the handler's continuation at a still later     *)
(* step; independently issued calls are not ordered with each other.       *)
(***************************************************************************)
EXTENDS Integers, Sequences, FiniteSets, Bags

\* ------------------------------------------------------------------ bounds
NumLeads == 2
MaxReq == 3
MaxPages == 2
\* Webhook requests of the Lead Generation form in flight at a time.
MaxPosts == 2

LeadIds == 1..NumLeads
Names == {"a", "b"}

\* ------------------------------------------------------- values and helpers
NULL == <<>>
Some(v) == <<v>>
NoError == ""

Views == {"active", "replies", "booked"}

Ids(ls) == {ls[i].id : i \in DOMAIN ls}

VARIABLES
    view,                    \* which status view is mounted
    server,                  \* leads_pipeline: id -> row
    now,                     \* the clock: the time of the latest row mutation
    leads,                   \* useState<Lead[]>      (view)
    loading,                 \* useState(true)        (view)
    error,                   \* useState<string|null> (view)
    updatingLeads,           \* useState<Set<string>> (view)
    selectedLead,            \* useState<Lead|null>   (view)
    isModalOpen,             \* useState(false)       (view)
    isEditing,               \* LeadDetailModal state
    isSaving,                \* LeadDetailModal state
    modalError,              \* LeadDetailModal state
    editableLeadData,        \* LeadDetailModal state (the edited profile field)
    showConfirmDiscardModal, \* LeadDetailModal state
    fetches,                 \* fetch calls in flight
    updates,                 \* update calls in flight (toggles and modal saves)
    nextRid,                 \* number of the next repository call
    lastEvent,               \* the handler step the client ran last (history)
    searchTerm,              \* useState('')         (list views)
    filters,                 \* useState({...: ''})  (list views)
    sortColumn,              \* useState<keyof Lead> (list views but Replies)
    sortDirection,           \* useState('desc')     (list views but Replies)
    currentPage,             \* useState(1)          (list views)
    metrics,                 \* Dashboard state
    funnelStages,            \* Dashboard state
    recentActivity,          \* Dashboard state
    formData,                \* LeadGenerationForm state
    formLoading,             \* LeadGenerationForm state: loading
    formError,               \* LeadGenerationForm state: error
    successMessage,          \* LeadGenerationForm state
    webhookUrl,              \* import.meta.env.VITE_LEAD_GENERATION_WEBHOOK_URL
    webhook                  \* POST requests to the webhook in flight (a bag)

serverVars == <<server, now>>
viewVars == <<leads, loading, error, updatingLeads, selectedLead, isModalOpen>>
modalVars == <<isEditing, isSaving, modalError, editableLeadData, showConfirmDiscardModal>>
netVars == <<fetches, updates, nextRid>>
listVars == <<searchTerm, filters, sortColumn, sortDirection, currentPage>>
dashVars == <<metrics, funnelStages, recentActivity>>
formVars == <<formData, formLoading, formError, successMessage, webhookUrl, webhook>>
vars == <<view, serverVars, viewVars, modalVars, netVars, lastEvent, listVars, dashVars, formVars>>

\* ------------------------------------------------------------ repository
\* The view's server-side filter of its fetch.
ActivePredicate(row) ==
    /\ row.stage \notin {"imported", "done"}
    /\ row.replied = FALSE
    /\ row.booked = FALSE

\* Variant: the Replies query without .eq('booked', false).
RepliedPredicate_AnyBooked(row) == row.replied = TRUE

RepliedPredicate(row) ==
    /\ row.replied = TRUE
    /\ row.booked = FALSE

BookedPredicate(row) == row.booked = TRUE

ViewPredicate(v, row) ==
    CASE v = "active" -> ActivePredicate(row)
      [] v = "replies" -> RepliedPredicate(row)
      [] v = "booked" -> BookedPredicate(row)
      [] v \in {"all", "dashboard"} -> TRUE

\* .order(column, { ascending: false }): the column the view orders by.
OrderColumn(v) == IF v = "booked" THEN "booked_at" ELSE "last_updated_at"

\* a comes no later than b in a descending order on column c (NULLs first).
DescOrdered(c, a, b) ==
    IF c = "booked_at"
    THEN \/ a.booked_at = NULL
         \/ /\ b.booked_at # NULL
            /\ a.booked_at[1] >= b.booked_at[1]
    ELSE a.last_updated_at >= b.last_updated_at

RECURSIVE Orderings(_, _, _)
\* The orders in which the rows S of tbl can come, descending on column c:
\* each row is followed only by rows it is ordered before.
Orderings(c, tbl, S) ==
    IF S = {} THEN {<<>>}
    ELSE UNION {{<<tbl[m]>> \o rest : rest \in Orderings(c, tbl, S \ {m})} :
                  m \in {x \in S : \A y \in S : DescOrdered(c, tbl[x], tbl[y])}}

\* The result sets select('*') with the view's filter and order can return:
\* the matching rows, ordered, rows with equal keys in any order (without
\* equal keys: the one order, each row at the place after the rows before it).
FetchResults(v, tbl) ==
    LET c == OrderColumn(v)
        S == {id \in DOMAIN tbl : ViewPredicate(v, tbl[id])}
        before == [x \in S |-> Cardinality({y \in S : y # x /\ DescOrdered(c, tbl[y], tbl[x])})]
    IN  IF \A x, y \in S : (x # y /\ DescOrdered(c, tbl[x], tbl[y])) => ~DescOrdered(c, tbl[y], tbl[x])
        THEN {[i \in 1..Cardinality(S) |-> tbl[CHOOSE x \in S : before[x] = i - 1]]}
        ELSE Orderings(c, tbl, S)

\* Variant: no trigger, the row keeps the last_updated_at the payload carries.
update_last_updated_at_Absent(new, t) == new

\* BEFORE UPDATE trigger set_last_updated_at: NEW.last_updated_at = NOW().
update_last_updated_at(new, t) == [new EXCEPT !.last_updated_at = t]

\* UPDATE leads_pipeline SET <data> WHERE id = ...: the columns named in the
\* payload are assigned, then the trigger runs on the new row.
ApplyUpdate(row, data, t) ==
    update_last_updated_at(
        [f \in DOMAIN row |-> IF f \in DOMAIN data THEN data[f] ELSE row[f]], t)

\* err instanceof Error ? err.message : fallback
ErrorText(res, fallback) ==
    IF res = "error_instance" THEN "err.message" ELSE fallback

FetchFallback(v) ==
    CASE v = "active" -> "Failed to fetch active leads"
      [] v = "replies" -> "Failed to fetch replied leads"
      [] v = "booked" -> "Failed to fetch booked leads"
      [] v = "all" -> "Failed to fetch leads"
      [] v = "dashboard" -> "Failed to fetch data"

Outcomes == {"ok", "error_instance", "error_plain"}

\* ------------------------------------------------------------ list pipeline
\* Text is a sequence of UTF-16 code units; a text column holds Some(text) or
\* NULL.  String.prototype.toLowerCase on the letters A-Z.
toLowerCase(t) == [i \in DOMAIN t |-> IF t[i] \in 65..90 THEN t[i] + 32 ELSE t[i]]

\* String.prototype.includes
includes(t, term) ==
    \E i \in 0..(Len(t) - Len(term)) : SubSeq(t, i + 1, i + Len(term)) = term

\* lead.column?.toLowerCase().includes(searchTerm.toLowerCase())
ColumnIncludes(col, term) ==
    /\ col # NULL
    /\ includes(toLowerCase(col[1]), toLowerCase(term))

\* Variant: the company name is not searched.
searchMatch_NoCompany(lead, term) ==
    \/ term = <<>>
    \/ ColumnIncludes(lead.fullname, term)
    \/ ColumnIncludes(lead.email, term)

\* const searchMatch = !searchTerm || fullname... || email... || company_name...
searchMatch(lead, term) ==
    \/ term = <<>>
    \/ ColumnIncludes(lead.fullname, term)
    \/ ColumnIncludes(lead.email, term)
    \/ ColumnIncludes(lead.company_name, term)

\* The keys of the view's filters state.
FilterFields(v) ==
    IF v \in {"active", "all"}
    THEN {"stage", "lead_source", "industry"}
    ELSE {"lead_source", "industry"}

\* !filters.f || lead.f === filters.f
fieldMatch(lead, f, value) ==
    \/ value = ""
    \/ IF f = "stage" THEN lead.stage = value ELSE lead[f] = Some(value)

\* leads.filter(lead => searchMatch && stageMatch && sourceMatch && industryMatch)
FilterLeads(ls, term, flt) ==
    SelectSeq(ls, LAMBDA lead :
        /\ searchMatch(lead, term)
        /\ \A f \in DOMAIN flt : fieldMatch(lead, f, flt[f]))

filteredLeads == FilterLeads(leads, searchTerm, filters)

\* filterOptions: the values a filter's <select> offers besides ''.
filterOptions(f) ==
    IF f = "stage"
    THEN {leads[i].stage : i \in DOMAIN leads}
    ELSE {leads[i][f][1] : i \in {j \in DOMAIN leads : leads[j][f] # NULL}}

\* The columns whose header calls handleSort.
SortableColumns(v) ==
    CASE v \in {"active", "all"} -> {"fullname", "company_name", "last_updated_at"}
      [] v = "booked" -> {"fullname", "company_name", "booked_at"}
      [] OTHER -> {}

\* aValue === null || aValue === undefined
IsNullish(c, lead) ==
    /\ c # "last_updated_at"
    /\ lead[c] = NULL

RECURSIVE TextLess(_, _)
\* a < b on strings: by code units, a proper prefix first.
TextLess(a, b) ==
    IF b = <<>> THEN FALSE
    ELSE IF a = <<>> THEN TRUE
    ELSE IF a[1] # b[1] THEN a[1] < b[1]
    ELSE TextLess(Tail(a), Tail(b))

\* aValue < bValue for two defined values of column c.
ValueLess(c, a, b) ==
    CASE c = "last_updated_at" -> a[c] < b[c]
      [] c = "booked_at" -> a[c][1] < b[c][1]
      [] OTHER -> TextLess(a[c][1], b[c][1])

\* Variant: a null value is ordered with the direction (first when descending).
compare_NullsWithDirection(a, b, c, dir) ==
    LET comparison ==
            IF IsNullish(c, a) THEN (IF IsNullish(c, b) THEN 0 ELSE 1)
            ELSE IF IsNullish(c, b) THEN -1
            ELSE IF ValueLess(c, a, b) THEN -1
            ELSE IF ValueLess(c, b, a) THEN 1
            ELSE 0
    IN  IF dir = "desc" THEN -comparison ELSE comparison

\* Variant: the direction is not applied.
compare_IgnoresDirection(a, b, c, dir) ==
    IF IsNullish(c, a) THEN 1
    ELSE IF IsNullish(c, b) THEN -1
    ELSE IF ValueLess(c, a, b) THEN -1
    ELSE IF ValueLess(c, b, a) THEN 1
    ELSE 0

\* The comparator handed to Array.prototype.sort.
compare(a, b, c, dir) ==
    IF IsNullish(c, a) THEN 1
    ELSE IF IsNullish(c, b) THEN -1
    ELSE LET comparison ==
                 IF ValueLess(c, a, b) THEN -1
                 ELSE IF ValueLess(c, b, a) THEN 1
                 ELSE 0
         IN  IF dir = "desc" THEN -comparison ELSE comparison

\* Array.prototype.sort is a stable insertion of each element into the sorted
\* prefix.  The comparator above answers 1 for two null values whichever comes
\* first, so it is not a consistent comparator and the order is
\* implementation-defined: an engine calls it with the later element first
\* (comparefn(pivot, element) < 0 moves the pivot left) or with the earlier
\* element first (comparefn(element, pivot) > 0 moves the pivot left).
CompareOrders == {"later_first", "earlier_first"}

MovesLeft(o, pivot, element, c, dir) ==
    IF o = "later_first"
    THEN compare(pivot, element, c, dir) < 0
    ELSE compare(element, pivot, c, dir) > 0

RECURSIVE InsertIndex(_, _, _, _, _, _)
\* The index the pivot takes in the sorted prefix s, scanning from position j.
InsertIndex(s, pivot, j, o, c, dir) ==
    IF j = 0 \/ ~MovesLeft(o, pivot, s[j], c, dir)
    THEN j + 1
    ELSE InsertIndex(s, pivot, j - 1, o, c, dir)

\* The sorted prefix s with the pivot inserted.
Insert(s, pivot, o, c, dir) ==
    LET k == InsertIndex(s, pivot, Len(s), o, c, dir)
    IN  SubSeq(s, 1, k - 1) \o <<pivot>> \o SubSeq(s, k, Len(s))

RECURSIVE InsertUpTo(_, _, _, _, _, _)
\* s is the first Len(s) elements of ls, sorted; the result is the first n,
\* every further element inserted in its turn (those up to the middle, then
\* the rest).
InsertUpTo(s, ls, n, o, c, dir) ==
    IF Len(s) >= n THEN s
    ELSE IF Len(s) + 1 = n THEN Insert(s, ls[n], o, c, dir)
    ELSE InsertUpTo(InsertUpTo(s, ls, (Len(s) + n) \div 2, o, c, dir), ls, n, o, c, dir)

\* [...filteredLeads].sort(comparator)
SortLeads(ls, o, c, dir) == InsertUpTo(<<>>, ls, Len(ls), o, c, dir)

\* The list the view paginates: sortedLeads, or filteredLeads in Replies.
Pipeline(v, ls, term, flt, o, c, dir) ==
    IF v = "replies"
    THEN FilterLeads(ls, term, flt)
    ELSE SortLeads(FilterLeads(ls, term, flt), o, c, dir)

sortedLeads(o) == Pipeline(view, leads, searchTerm, filters, o, sortColumn, sortDirection)

\* const [leadsPerPage] = useState(25), useState(20) in Replies.
leadsPerPage(v) == IF v = "replies" THEN 20 ELSE 25

\* Math.ceil(length / leadsPerPage)
totalPages(n, size) == (n + size - 1) \div size

\* Array.prototype.slice(start, end) for 0 <= start <= end.
slice(s, start, end) ==
    SubSeq(s, start + 1, IF end < Len(s) THEN end ELSE Len(s))

\* Variant: the first index is one past the previous page's last lead.
currentLeads_OffByOne(s, page, size) ==
    LET indexOfLastLead == page * size
        indexOfFirstLead == indexOfLastLead - size + 1
    IN  slice(s, indexOfFirstLead, indexOfLastLead)

\* sortedLeads.slice(indexOfFirstLead, indexOfLastLead)
currentLeads(s, page, size) ==
    LET indexOfLastLead == page * size
        indexOfFirstLead == indexOfLastLead - size
    IN  slice(s, indexOfFirstLead, indexOfLastLead)

\* ------------------------------------------------------------- leadUtils
\* if (lead.f): a missing (undefined) flag is falsy.
Truthy(lead, f) == f \in DOMAIN lead /\ lead[f] = TRUE

\* Variant: the scan runs from step 1 upwards.
getCurrentStage_LowestFirst(lead) ==
    IF Truthy(lead, "day_1_sent") THEN "Day 1 Sent"
    ELSE IF Truthy(lead, "day_2_sent") THEN "Day 2 Sent"
    ELSE IF Truthy(lead, "day_3_sent") THEN "Day 3 Sent"
    ELSE IF Truthy(lead, "day_4_sent") THEN "Day 4 Sent"
    ELSE "Not Started"

getCurrentStage(lead) ==
    IF Truthy(lead, "day_4_sent") THEN "Day 4 Sent"
    ELSE IF Truthy(lead, "day_3_sent") THEN "Day 3 Sent"
    ELSE IF Truthy(lead, "day_2_sent") THEN "Day 2 Sent"
    ELSE IF Truthy(lead, "day_1_sent") THEN "Day 1 Sent"
    ELSE "Not Started"

\* Variant: the answer follows the most advanced step sent.
getNextStage_AfterCurrent(lead) ==
    IF Truthy(lead, "day_4_sent") THEN "Sequence Complete"
    ELSE IF Truthy(lead, "day_3_sent") THEN "Awaiting Day 4"
    ELSE IF Truthy(lead, "day_2_sent") THEN "Awaiting Day 3"
    ELSE IF Truthy(lead, "day_1_sent") THEN "Awaiting Day 2"
    ELSE "Awaiting Day 1"

getNextStage(lead) ==
    IF ~Truthy(lead, "day_1_sent") THEN "Awaiting Day 1"
    ELSE IF ~Truthy(lead, "day_2_sent") THEN "Awaiting Day 2"
    ELSE IF ~Truthy(lead, "day_3_sent") THEN "Awaiting Day 3"
    ELSE IF ~Truthy(lead, "day_4_sent") THEN "Awaiting Day 4"
    ELSE "Sequence Complete"

\* ------------------------------------------------------------- Dashboard
\* leadsData.filter(lead => lead.f).length
CountOf(ls, f) == Cardinality({i \in DOMAIN ls : Truthy(ls[i], f)})

\* The funnel's checkpoints, in the order of the array literal.
Checkpoints ==
    << [name |-> "Day 1 Sent", field |-> "day_1_sent"],
       [name |-> "Day 2 Sent", field |-> "day_2_sent"],
       [name |-> "Day 3 Sent", field |-> "day_3_sent"],
       [name |-> "Day 4 Sent", field |-> "day_4_sent"],
       [name |-> "Replied", field |-> "replied"],
       [name |-> "Booked", field |-> "booked"] >>

\* Variant: the denominator is the number of leads.
maxCount_TotalLeads(ls) == IF Len(ls) > 1 THEN Len(ls) ELSE 1

\* Variant: the floor 1 is left out of Math.max.
maxCount_NoFloor(ls) ==
    LET counts == {CountOf(ls, Checkpoints[i].field) : i \in DOMAIN Checkpoints}
    IN  CHOOSE m \in counts : \A c \in counts : c <= m

\* Math.max(day1Sent, day2Sent, day3Sent, day4Sent, replied, booked, 1)
maxCount(ls) ==
    LET counts == {CountOf(ls, Checkpoints[i].field) : i \in DOMAIN Checkpoints} \cup {1}
    IN  CHOOSE m \in counts : \A c \in counts : c <= m

\* (count / maxCount) * 100, kept as the exact quotient num / den.
Percentage(count, max) == [num |-> count * 100, den |-> max]

\* The array handed to setFunnelStages.
FunnelStagesOf(ls) ==
    [i \in DOMAIN Checkpoints |->
        [name |-> Checkpoints[i].name,
         count |-> CountOf(ls, Checkpoints[i].field),
         percentage |-> Percentage(CountOf(ls, Checkpoints[i].field), maxCount(ls))]]

\* Variant: an email is counted for every day_N_sent flag.
MetricsOf_CountsFlags(ls) ==
    [totalLeads |-> Len(ls),
     totalEmailsSent |->
        CountOf(ls, "day_1_sent") + CountOf(ls, "day_2_sent")
           + CountOf(ls, "day_3_sent") + CountOf(ls, "day_4_sent"),
     repliesReceived |-> CountOf(ls, "replied"),
     meetingsBooked |-> CountOf(ls, "booked")]

\* The object handed to setMetrics.
MetricsOf(ls) ==
    [totalLeads |-> Len(ls),
     totalEmailsSent |->
        Cardinality({<<i, f>> \in (DOMAIN ls) \X {"day_1_sent_at", "day_2_sent_at",
                                                  "day_3_sent_at", "day_4_sent_at"} :
                        f \in DOMAIN ls[i] /\ ls[i][f] # NULL}),
     repliesReceived |-> CountOf(ls, "replied"),
     meetingsBooked |-> CountOf(ls, "booked")]

\* useState initial value of metrics.
NoMetrics ==
    [totalLeads |-> 0, totalEmailsSent |-> 0, repliesReceived |-> 0, meetingsBooked |-> 0]

\* leadsData.slice(0, 10)
RecentActivityOf(ls) == slice(ls, 0, 10)

\* ----------------------------------------------- BookedMeetings analytics
\* A JavaScript value held by an accumulator: a number n, the property
\* inherited from Object.prototype, that value's text followed by n
\* characters "1", or undefined.
JsNumber(n) == [t |-> "number", n |-> n]
JsText(n) == [t |-> "string", n |-> n]
JsInherited == [t |-> "object", n |-> 0]
JsUndefined == [t |-> "undefined", n |-> 0]

\* Property names every object literal inherits from Object.prototype.
ObjectPrototypeKeys == {"constructor", "toString", "valueOf", "hasOwnProperty", "__proto__"}

\* lead.industry || 'Unknown': null and '' are falsy.
GroupKey(lead, f) == IF lead[f] = NULL \/ lead[f] = Some("") THEN "Unknown" ELSE lead[f][1]

\* acc[key] of the accumulator {} (own properties in insertion order).
GetProperty(acc, key) ==
    IF \E i \in DOMAIN acc : acc[i].name = key
    THEN acc[CHOOSE i \in DOMAIN acc : acc[i].name = key].value
    ELSE IF key \in ObjectPrototypeKeys THEN JsInherited ELSE JsUndefined

\* (acc[key] || 0) + 1: a number is incremented, undefined counts as 0, any
\* other value is concatenated with "1".
OrZeroPlusOne(v) ==
    CASE v.t = "number" -> JsNumber(v.n + 1)
      [] v.t = "undefined" -> JsNumber(1)
      [] v.t = "object" -> JsText(1)
      [] OTHER -> JsText(v.n + 1)

\* acc[key] = v: the __proto__ setter ignores a value that is not an object.
SetProperty(acc, key, v) ==
    IF key = "__proto__" THEN acc
    ELSE IF \E i \in DOMAIN acc : acc[i].name = key
         THEN [i \in DOMAIN acc |-> IF acc[i].name = key THEN [acc[i] EXCEPT !.value = v] ELSE acc[i]]
         ELSE Append(acc, [name |-> key, value |-> v])

RECURSIVE Stats(_, _, _)
\* leads.reduce((acc, lead) => { acc[key] = (acc[key] || 0) + 1; return acc }, {})
\* over the first n leads.
Stats(ls, f, n) ==
    IF n = 0 THEN <<>>
    ELSE LET acc == Stats(ls, f, n - 1)
             key == GroupKey(ls[n], f)
         IN  SetProperty(acc, key, OrZeroPlusOne(GetProperty(acc, key)))

\* (count / leads.length) * 100: NaN (0 / 0 here) when count is not a number.
ShareOf(count, total) ==
    IF count.t = "number" THEN [num |-> count.n * 100, den |-> total] ELSE [num |-> 0, den |-> 0]

\* Object.entries(stats).map(([name, count]) => ({ name, count, percentage }))
Entries(stats, total) ==
    [i \in DOMAIN stats |->
        [name |-> stats[i].name, count |-> stats[i].value,
         percentage |-> ShareOf(stats[i].value, total)]]

\* (a, b) => b.count - a.count: NaN, which sort takes as 0, unless both are numbers.
compareCount(a, b) ==
    IF a.count.t = "number" /\ b.count.t = "number" THEN b.count.n - a.count.n ELSE 0

RECURSIVE EntryIndex(_, _, _, _)
\* The index the pivot takes in the sorted prefix s, scanning from position j.
EntryIndex(s, pivot, j, o) ==
    IF j = 0 THEN 1
    ELSE IF (IF o = "later_first" THEN compareCount(pivot, s[j]) < 0
                                  ELSE compareCount(s[j], pivot) > 0)
         THEN EntryIndex(s, pivot, j - 1, o)
         ELSE j + 1

RECURSIVE SortEntries(_, _, _)
\* The first n entries, sorted by Array.prototype.sort (a stable insertion).
SortEntries(es, n, o) ==
    IF n = 0 THEN <<>>
    ELSE LET s == SortEntries(es, n - 1, o)
             k == EntryIndex(s, es[n], n - 1, o)
         IN  SubSeq(s, 1, k - 1) \o <<es[n]>> \o SubSeq(s, k, n - 1)

\* industryData / sourceData of the analytics memo.
Breakdown(ls, f, o) ==
    LET es == Entries(Stats(ls, f, Len(ls)), Len(ls))
    IN  SortEntries(es, Len(es), o)

analytics(o) ==
    [industryData |-> Breakdown(leads, "industry", o),
     sourceData |-> Breakdown(leads, "lead_source", o)]

\* ------------------------------------------------------------- rendering
\* The view returns the loading screen or the error screen before its list.
MainBranch == ~loading /\ error = NoError

\* LeadDetailModal renders (if (!isOpen || !lead) return null) over the list.
ModalVisible == MainBranch /\ isModalOpen /\ selectedLead # NULL

\* editableLeadData as initialised from the lead prop.
InitialEditable(sel) == IF sel = NULL THEN "" ELSE sel[1].fullname

\* The modal's local state after a step: it is lost when the view stops
\* rendering its list (the modal unmounts), else it is what the step sets.
ModalLocal(sel, e, s, m, d, c) ==
    IF loading' \/ error' # NoError
    THEN /\ isEditing' = FALSE
         /\ isSaving' = FALSE
         /\ modalError' = NoError
         /\ editableLeadData' = InitialEditable(sel)
         /\ showConfirmDiscardModal' = FALSE
    ELSE /\ isEditing' = e
         /\ isSaving' = s
         /\ modalError' = m
         /\ editableLeadData' = d
         /\ showConfirmDiscardModal' = c

ModalLocalKept ==
    ModalLocal(selectedLead, isEditing, isSaving, modalError, editableLeadData,
               showConfirmDiscardModal)

\* Saves whose modal instance unmounts in this step lose their component.
Orphaned(us) ==
    IF loading' \/ error' # NoError
    THEN {IF u.kind = "save" THEN [u EXCEPT !.alive = FALSE] ELSE u : u \in us}
    ELSE us

Event(k, id) == [kind |-> k, lead |-> id]

\* new Date() in the browser when a handler builds its payload.
ClientNow == now

\* ------------------------------------------------------ LeadGenerationForm
companySizeOptions ==
    <<"1-10", "11-50", "51-200", "201-1000", "1001-5000", "5001-10000", "10001-100000">>

\* useState({jobTitle: '', companySize: [], keywords: '', location: ''}).
EmptyForm == [jobTitle |-> <<>>, companySize |-> <<>>, keywords |-> <<>>, location |-> <<>>]

\* The code units String.prototype.trim strips: WhiteSpace and LineTerminator.
WhiteSpace ==
    {9, 10, 11, 12, 13, 32, 160, 5760, 8232, 8233, 8239, 8287, 12288, 65279} \cup (8192..8202)

RECURSIVE trimStart(_)
trimStart(s) == IF s # <<>> /\ Head(s) \in WhiteSpace THEN trimStart(Tail(s)) ELSE s

RECURSIVE trimEnd(_)
trimEnd(s) ==
    IF s # <<>> /\ s[Len(s)] \in WhiteSpace THEN trimEnd(SubSeq(s, 1, Len(s) - 1)) ELSE s

\* Variant: the text is taken as typed.
trim_AsTyped(s) == s

trim(s) == trimEnd(trimStart(s))

\* The state of the form when it mounts, built with the webhook URL url.
FormMounted(url) ==
    /\ formData = EmptyForm
    /\ formLoading = FALSE
    /\ formError = NULL
    /\ successMessage = NULL
    /\ webhookUrl = url
    /\ webhook = EmptyBag

\* The inputs, the checkboxes and the Clear button: disabled={loading}.
FormControls == view = "lead-generation" /\ ~formLoading

\* The submit button: disabled={loading || !jobTitle.trim() || companySize.length === 0}.
SubmitDisabled ==
    formLoading \/ trim(formData.jobTitle) = <<>> \/ Len(formData.companySize) = 0

FormFrame ==
    UNCHANGED <<view, serverVars, viewVars, modalVars, netVars, listVars, dashVars, webhookUrl>>

handleInputChange(field, value) ==
    /\ FormControls
    /\ formData' = [formData EXCEPT ![field] = value]
    /\ lastEvent' = Event("input", 0)
    /\ UNCHANGED <<formLoading, formError, successMessage, webhook>>
    /\ FormFrame

handleCompanySizeChange(value) ==
    /\ FormControls
    /\ formData' = [formData EXCEPT !.companySize =
                       IF \E i \in DOMAIN @ : @[i] = value
                       THEN SelectSeq(@, LAMBDA size : size # value)
                       ELSE Append(@, value)]
    /\ lastEvent' = Event("size", 0)
    /\ UNCHANGED <<formLoading, formError, successMessage, webhook>>
    /\ FormFrame

\* The body of the POST request.
SubmitBody ==
    [jobTitle |-> trim(formData.jobTitle),
     companySize |-> formData.companySize,
     keywords |-> trim(formData.keywords),
     location |-> trim(formData.location),
     timestamp |-> ClientNow]

\* The form's submit event.  The submit button raises it only while it is
\* enabled; a submit event dispatched on the form itself (requestSubmit with
\* no submitter, dispatchEvent) reaches the handler whatever the button shows.
handleSubmit(via) ==
    /\ view = "lead-generation"
    /\ via = "button" => ~SubmitDisabled
    /\ lastEvent' = Event("submit", 0)
    /\ IF trim(formData.jobTitle) = <<>>
       THEN /\ formError' = Some("Job Title is required")
            /\ UNCHANGED <<formData, formLoading, successMessage, webhook>>
       ELSE IF Len(formData.companySize) = 0
       THEN /\ formError' = Some("Please select at least one company size")
            /\ UNCHANGED <<formData, formLoading, successMessage, webhook>>
       ELSE IF webhookUrl = NULL
       THEN \* thrown before the first await: catch and finally run at once
            /\ formError' = Some("Lead generation webhook URL is not configured")
            /\ formLoading' = FALSE
            /\ successMessage' = NULL
            /\ UNCHANGED <<formData, webhook>>
       ELSE /\ BagCardinality(webhook) < MaxPosts
            /\ formLoading' = TRUE
            /\ formError' = NULL
            /\ successMessage' = NULL
            /\ webhook' = webhook (+) SetToBag({SubmitBody})
            /\ UNCHANGED formData
    /\ FormFrame

\* What the webhook's answer can be: 2xx with or without a message, 2xx with
\* a body that is not JSON, another status with or without a JSON message,
\* no answer at all (fetch rejects).
PostOutcomes == {"ok_message", "ok", "ok_not_json", "http_message", "http", "network"}

PostErrorText(o) ==
    CASE o = "ok_not_json" -> "Unexpected token"
      [] o = "http_message" -> "errorData.message"
      [] o = "http" -> "HTTP error! status: 500"
      [] o = "network" -> "Failed to fetch"

\* The rest of handleSubmit, once the webhook has answered the request b.
DeliverSubmit(b, o) ==
    /\ view = "lead-generation"
    /\ BagIn(b, webhook)
    /\ webhook' = webhook (-) SetToBag({b})
    /\ formLoading' = FALSE
    /\ IF o \in {"ok_message", "ok"}
       THEN /\ successMessage' =
                   Some(<<"Lead generation request submitted successfully!",
                          IF o = "ok_message" THEN "result.message"
                          ELSE "Your leads will be processed and added to the database shortly.">>)
            /\ formData' = EmptyForm
            /\ lastEvent' = Event("post_ok", 0)
            /\ UNCHANGED formError
       ELSE /\ formError' = Some(PostErrorText(o))
            /\ lastEvent' = Event("post_err", 0)
            /\ UNCHANGED <<formData, successMessage>>
    /\ FormFrame

clearForm ==
    /\ FormControls
    /\ formData' = EmptyForm
    /\ formError' = NULL
    /\ successMessage' = NULL
    /\ lastEvent' = Event("clear_form", 0)
    /\ UNCHANGED <<formLoading, webhook>>
    /\ FormFrame

\* ----------------------------------------------------------------- Init
InitRow(id, k) ==
    [id |-> id,
     stage |-> IF k = 1 THEN "imported" ELSE "contacted",
     replied |-> k >= 3,
     booked |-> k = 4,
     booked_at |-> IF k = 4 THEN Some(id) ELSE NULL,
     last_updated_at |-> id,
     fullname |-> "a"]

\* The filters state of a list view: every field ''.
NoFilters(v) == [f \in FilterFields(v) |-> ""]

\* useState<keyof Lead>('last_updated_at'), 'booked_at' in Booked Meetings.
InitialSortColumn(v) == IF v = "booked" THEN "booked_at" ELSE "last_updated_at"

\* The component v has mounted: its state holds the useState values and its
\* useEffect has issued the first fetch.
Mounted(v) ==
    /\ view = v
    /\ leads = <<>>
    /\ loading = TRUE
    /\ error = NoError
    /\ updatingLeads = {}
    /\ selectedLead = NULL
    /\ isModalOpen = FALSE
    /\ isEditing = FALSE
    /\ isSaving = FALSE
    /\ modalError = NoError
    /\ editableLeadData = ""
    /\ showConfirmDiscardModal = FALSE
    /\ fetches = {[rid |-> 1, phase |-> "sent", res |-> "pending", data |-> <<>>]}
    /\ updates = {}
    /\ nextRid = 2
    /\ lastEvent = Event("mount", 0)
    /\ searchTerm = <<>>
    /\ filters = NoFilters(v)
    /\ sortColumn = InitialSortColumn(v)
    /\ sortDirection = "desc"
    /\ currentPage = 1
    /\ metrics = NoMetrics
    /\ funnelStages = <<>>
    /\ recentActivity = <<>>
    /\ FormMounted(NULL)

\* A status view has mounted over a table of leads.
Init ==
    /\ \E v \in Views : Mounted(v)
    /\ \E k \in [LeadIds -> 1..4] :
         /\ \A i, j \in LeadIds : i < j => k[i] <= k[j]
         /\ server = [id \in LeadIds |-> InitRow(id, k[id])]
    /\ now = NumLeads

\* ------------------------------------------------------------ view: fetch
\* fetchActiveLeads / fetchRepliedLeads / fetchBookedLeads up to the await:
\* setLoading(true); setError(null); the query is sent as call number rid.
FetchLeads(rid) ==
    /\ loading' = TRUE
    /\ error' = NoError
    /\ fetches' = fetches \cup {[rid |-> rid, phase |-> "sent", res |-> "pending", data |-> <<>>]}

\* The Refresh button of the list (disabled={loading}).
Refresh ==
    /\ MainBranch
    /\ ~ModalVisible
    /\ nextRid <= MaxReq
    /\ FetchLeads(nextRid)
    /\ nextRid' = nextRid + 1
    /\ updates' = Orphaned(updates)
    /\ ModalLocalKept
    /\ lastEvent' = Event("fetch_issued", 0)
    /\ UNCHANGED <<view, formVars, listVars, dashVars, serverVars, leads, updatingLeads, selectedLead, isModalOpen>>

\* The Retry button of the error screen.
Retry ==
    /\ ~loading
    /\ error # NoError
    /\ nextRid <= MaxReq
    /\ FetchLeads(nextRid)
    /\ nextRid' = nextRid + 1
    /\ updates' = Orphaned(updates)
    /\ ModalLocalKept
    /\ lastEvent' = Event("fetch_issued", 0)
    /\ UNCHANGED <<view, formVars, listVars, dashVars, serverVars, leads, updatingLeads, selectedLead, isModalOpen>>

\* The repository serves a fetch: a snapshot of the filter, or an error.
ServerFetch(r) ==
    /\ r \in fetches
    /\ r.phase = "sent"
    /\ \E o \in Outcomes :
         \E d \in (IF o = "ok" THEN FetchResults(view, server) ELSE {<<>>}) :
            fetches' = (fetches \ {r}) \cup {[r EXCEPT !.phase = "responded", !.res = o, !.data = d]}
    /\ UNCHANGED <<view, formVars, listVars, dashVars, serverVars, viewVars, modalVars, updates, nextRid, lastEvent>>

\* Variant: a failed fetch empties the list.
DeliverFetch_ClearsOnError(r) ==
    /\ r \in fetches
    /\ r.phase = "responded"
    /\ fetches' = fetches \ {r}
    /\ IF r.res = "ok"
       THEN /\ leads' = r.data
            /\ error' = error
       ELSE /\ leads' = <<>>
            /\ error' = ErrorText(r.res, FetchFallback(view))
    /\ loading' = FALSE
    /\ updates' = Orphaned(updates)
    /\ ModalLocalKept
    /\ IF view = "dashboard" /\ r.res = "ok"
       THEN /\ metrics' = MetricsOf(r.data)
            /\ funnelStages' = FunnelStagesOf(r.data)
            /\ recentActivity' = RecentActivityOf(r.data)
       ELSE UNCHANGED dashVars
    /\ lastEvent' = Event(IF r.res = "ok" THEN "fetch_ok" ELSE "fetch_err", 0)
    /\ UNCHANGED <<view, formVars, listVars, serverVars, updatingLeads, selectedLead, isModalOpen, nextRid>>

\* The rest of fetch*Leads after the await: setLeads(data || []) (and, in the
\* Dashboard, the aggregations of the fetched leads) or setError(message), and
\* setLoading(false) in the finally block.
DeliverFetch(r) ==
    /\ r \in fetches
    /\ r.phase = "responded"
    /\ fetches' = fetches \ {r}
    /\ IF r.res = "ok"
       THEN /\ leads' = r.data
            /\ error' = error
       ELSE /\ leads' = leads
            /\ error' = ErrorText(r.res, FetchFallback(view))
    /\ loading' = FALSE
    /\ updates' = Orphaned(updates)
    /\ ModalLocalKept
    /\ IF view = "dashboard" /\ r.res = "ok"
       THEN /\ metrics' = MetricsOf(r.data)
            /\ funnelStages' = FunnelStagesOf(r.data)
            /\ recentActivity' = RecentActivityOf(r.data)
       ELSE UNCHANGED dashVars
    /\ lastEvent' = Event(IF r.res = "ok" THEN "fetch_ok" ELSE "fetch_err", 0)
    /\ UNCHANGED <<view, formVars, listVars, serverVars, updatingLeads, selectedLead, isModalOpen, nextRid>>

\* ------------------------------------------- view: search, filters, sort
\* The components with a searchable, filtered, paginated list.
ListViews == Views \cup {"all"}

\* The list's controls are rendered and reachable.
ListControls ==
    /\ view \in ListViews
    /\ MainBranch
    /\ ~ModalVisible

\* What a handler of the list's controls leaves alone.
ListControlFrame(kind) ==
    /\ lastEvent' = Event(kind, 0)
    /\ UNCHANGED <<view, formVars, serverVars, viewVars, modalVars, netVars, dashVars>>

\* Variant: typing in the search box keeps the page shown.
SearchPage_Kept(page) == page

\* setCurrentPage(1) of the search box's onChange.
SearchPage(page) == 1

\* The search box: onChange = setSearchTerm(e.target.value); setCurrentPage(1).
HandleSearchChange(term) ==
    /\ ListControls
    /\ term # searchTerm
    /\ searchTerm' = term
    /\ currentPage' = SearchPage(currentPage)
    /\ ListControlFrame("search")
    /\ UNCHANGED <<filters, sortColumn, sortDirection>>

\* handleFilterChange(filterType, value), from one of the filter selects.
HandleFilterChange(f, value) ==
    /\ ListControls
    /\ f \in FilterFields(view)
    /\ value \in filterOptions(f) \cup {""}
    /\ value # filters[f]
    /\ filters' = [filters EXCEPT ![f] = value]
    /\ currentPage' = 1
    /\ ListControlFrame("filter")
    /\ UNCHANGED <<searchTerm, sortColumn, sortDirection>>

\* clearFilters, from the Clear All button (rendered when something is set).
ClearFilters ==
    /\ ListControls
    /\ searchTerm # <<>> \/ \E f \in DOMAIN filters : filters[f] # ""
    /\ filters' = NoFilters(view)
    /\ searchTerm' = <<>>
    /\ currentPage' = 1
    /\ ListControlFrame("clear")
    /\ UNCHANGED <<sortColumn, sortDirection>>

\* handleSort(column), from a sortable column header.
HandleSort(c) ==
    /\ ListControls
    /\ c \in SortableColumns(view)
    /\ IF sortColumn = c
       THEN /\ sortDirection' = (IF sortDirection = "asc" THEN "desc" ELSE "asc")
            /\ sortColumn' = sortColumn
       ELSE /\ sortColumn' = c
            /\ sortDirection' = "asc"
    /\ ListControlFrame("sort")
    /\ UNCHANGED <<searchTerm, filters, currentPage>>

\* totalPages of the rendered list.
TotalPages == totalPages(Len(filteredLeads), leadsPerPage(view))

\* The pagination controls are rendered: {totalPages > 1 && (...)}.
PageControls == ListControls /\ TotalPages > 1

\* The previous-page button: setCurrentPage(Math.max(1, currentPage - 1)).
PreviousPage ==
    /\ PageControls
    /\ currentPage # 1
    /\ currentPage' = (IF currentPage - 1 > 1 THEN currentPage - 1 ELSE 1)
    /\ ListControlFrame("page")
    /\ UNCHANGED <<searchTerm, filters, sortColumn, sortDirection>>

\* The next-page button: setCurrentPage(Math.min(totalPages, currentPage + 1)).
NextPage ==
    /\ PageControls
    /\ currentPage # TotalPages
    /\ currentPage' = (IF currentPage + 1 < TotalPages THEN currentPage + 1 ELSE TotalPages)
    /\ ListControlFrame("page")
    /\ UNCHANGED <<searchTerm, filters, sortColumn, sortDirection>>

\* The page numbers of the (at most three) page buttons.
PageNumbers ==
    LET lower == IF TotalPages - 2 < currentPage - 1 THEN TotalPages - 2 ELSE currentPage - 1
        first == IF lower > 1 THEN lower ELSE 1
        shown == IF TotalPages < 3 THEN TotalPages ELSE 3
    IN  {first + i : i \in 0..(shown - 1)} \cap (1..TotalPages)

\* A page button: setCurrentPage(pageNum).
GoToPage(pageNum) ==
    /\ PageControls
    /\ pageNum \in PageNumbers
    /\ pageNum # currentPage
    /\ currentPage' = pageNum
    /\ ListControlFrame("page")
    /\ UNCHANGED <<searchTerm, filters, sortColumn, sortDirection>>

\* ---------------------------------------------------------- view: toggles
\* Variant: the Replies view's Replied toggle writes replied = true again.
ToggleOffers_RepliedStaysTrue(v) ==
    CASE v = "active" -> {<<"replied", TRUE>>, <<"booked", TRUE>>}
      [] v = "replies" -> {<<"replied", TRUE>>, <<"booked", TRUE>>}
      [] v = "booked" -> {}

\* The (field, value) pairs of the updateLeadStatus calls a view renders.
ToggleOffers(v) ==
    CASE v = "active" -> {<<"replied", TRUE>>, <<"booked", TRUE>>}
      [] v = "replies" -> {<<"replied", FALSE>>, <<"booked", TRUE>>}
      [] v = "booked" -> {}

\* Variant: booking does not stamp booked_at.
UpdateData_NoBookedAt(field, value, ct) ==
    IF field = "booked"
    THEN [booked |-> value, last_updated_at |-> ct]
    ELSE [replied |-> value, last_updated_at |-> ct]

\* updateData of updateLeadStatus.
UpdateData(field, value, ct) ==
    IF field = "booked" /\ value
    THEN [booked |-> value, last_updated_at |-> ct, booked_at |-> Some(ct)]
    ELSE IF field = "booked"
         THEN [booked |-> value, last_updated_at |-> ct]
         ELSE [replied |-> value, last_updated_at |-> ct]

\* updateData of updateBookedStatus.
BookedUpdateData(ct) ==
    [booked |-> FALSE, booked_at |-> NULL, last_updated_at |-> ct]

\* Variant: the toggle buttons carry no disabled attribute.
ToggleDisabled_Never(id) == FALSE

\* disabled={updatingLeads.has(lead.id)}
ToggleDisabled(id) == id \in updatingLeads

\* The row of lead id is rendered and its toggle buttons accept a click.
ToggleEnabled(id) ==
    /\ MainBranch
    /\ ~ModalVisible
    /\ id \in Ids(leads)
    /\ ~ToggleDisabled(id)

\* Variant: mutate-then-update, the lead is dropped from the list before the await.
SendToggle_RemoveFirst(id, field, data) ==
    /\ nextRid <= MaxReq
    /\ updatingLeads' = updatingLeads \cup {id}
    /\ leads' = SelectSeq(leads, LAMBDA l : l.id # id)
    /\ updates' = updates \cup {[rid |-> nextRid, kind |-> "toggle", lead |-> id, field |-> field,
                                 data |-> data, phase |-> "sent", res |-> "pending", alive |-> TRUE]}
    /\ nextRid' = nextRid + 1
    /\ lastEvent' = Event("toggle_issued", id)
    /\ UNCHANGED <<view, formVars, listVars, dashVars, serverVars, loading, error, selectedLead, isModalOpen, modalVars, fetches>>

\* The handler up to the await: the id joins updatingLeads, the update is sent.
SendToggle(id, field, data) ==
    /\ nextRid <= MaxReq
    /\ updatingLeads' = updatingLeads \cup {id}
    /\ updates' = updates \cup {[rid |-> nextRid, kind |-> "toggle", lead |-> id, field |-> field,
                                 data |-> data, phase |-> "sent", res |-> "pending", alive |-> TRUE]}
    /\ nextRid' = nextRid + 1
    /\ lastEvent' = Event("toggle_issued", id)
    /\ UNCHANGED <<view, formVars, listVars, dashVars, serverVars, leads, loading, error, selectedLead, isModalOpen, modalVars, fetches>>

\* updateLeadStatus(leadId, field, value) of Active Campaigns and Replies.
UpdateLeadStatus(id, field, value) ==
    /\ view \in {"active", "replies"}
    /\ <<field, value>> \in ToggleOffers(view)
    /\ ToggleEnabled(id)
    /\ SendToggle(id, field, UpdateData(field, value, ClientNow))

\* updateBookedStatus(leadId) of Booked Meetings.
UpdateBookedStatus(id) ==
    /\ view = "booked"
    /\ ToggleEnabled(id)
    /\ SendToggle(id, "booked status", BookedUpdateData(ClientNow))

\* Variant: the filter keeps the toggled lead instead of dropping it (=== for !==).
RemoveLead_KeepsOnlyId(ls, id) == SelectSeq(ls, LAMBDA l : l.id = id)

\* setLeads(prevLeads => prevLeads.filter(lead => lead.id !== leadId))
RemoveLead(ls, id) == SelectSeq(ls, LAMBDA l : l.id # id)

UpdateFallback(field) == "Failed to update " \o field

\* Variant: the local removal runs whatever the outcome (no throw on updateError).
LeadsAfterToggle_Always(ls, id, res) == RemoveLead(ls, id)

\* if (updateError) throw updateError; else the local removal.
LeadsAfterToggle(ls, id, res) ==
    IF res = "ok" THEN RemoveLead(ls, id) ELSE ls

\* catch (err) { setError(err instanceof Error ? err.message : `Failed to update ${field}`) }
ErrorAfterToggle(err, res, field) ==
    IF res = "ok" THEN err ELSE ErrorText(res, UpdateFallback(field))

\* Variant: the completion installs an empty set instead of deleting its id.
UpdatingAfterToggle_Emptied(set, id, res) == {}

\* Variant: the id is deleted after the removal in the try block, not in a finally.
UpdatingAfterToggle_OnSuccessOnly(set, id, res) == IF res = "ok" THEN set \ {id} ELSE set

\* finally { setUpdatingLeads(prev => { newSet.delete(leadId) }) }
UpdatingAfterToggle(set, id, res) == set \ {id}

\* The handler after the await: on success the local removal, in the catch
\* block setError, in the finally block the id leaves updatingLeads.
DeliverToggle(r) ==
    /\ r \in updates
    /\ r.kind = "toggle"
    /\ r.phase = "responded"
    /\ leads' = LeadsAfterToggle(leads, r.lead, r.res)
    /\ error' = ErrorAfterToggle(error, r.res, r.field)
    /\ updatingLeads' = UpdatingAfterToggle(updatingLeads, r.lead, r.res)
    /\ loading' = loading
    /\ selectedLead' = selectedLead
    /\ updates' = Orphaned(updates \ {r})
    /\ ModalLocalKept
    /\ lastEvent' = Event(IF r.res = "ok" THEN "toggle_ok" ELSE "toggle_err", r.lead)
    /\ UNCHANGED <<view, formVars, listVars, dashVars, serverVars, isModalOpen, fetches, nextRid>>

\* -------------------------------------------------------- LeadDetailModal
\* handleLeadClick(lead) of the view: the lead's name button.
HandleLeadClick(id) ==
    /\ MainBranch
    /\ ~ModalVisible
    /\ \E i \in DOMAIN leads :
         /\ leads[i].id = id
         /\ selectedLead' = Some(leads[i])
         /\ editableLeadData' = InitialEditable(Some(leads[i]))
    /\ isModalOpen' = TRUE
    /\ lastEvent' = Event("ui", 0)
    /\ UNCHANGED <<view, formVars, listVars, dashVars, serverVars, leads, loading, error, updatingLeads, netVars,
                   isEditing, isSaving, modalError, showConfirmDiscardModal>>

\* hasUnsavedChanges(): editing and the edited data differ from the lead's.
hasUnsavedChanges ==
    /\ isEditing
    /\ editableLeadData # InitialEditable(selectedLead)

\* The modal's own controls are reachable (the confirmation dialog covers them).
ModalControls == ModalVisible /\ ~showConfirmDiscardModal

HandleEdit ==
    /\ ModalControls
    /\ ~isEditing
    /\ isEditing' = TRUE
    /\ modalError' = NoError
    /\ lastEvent' = Event("ui", 0)
    /\ UNCHANGED <<view, formVars, listVars, dashVars, serverVars, viewVars, netVars, isSaving, editableLeadData,
                   showConfirmDiscardModal>>

HandleInputChange(v) ==
    /\ ModalControls
    /\ isEditing
    /\ v # editableLeadData
    /\ editableLeadData' = v
    /\ lastEvent' = Event("ui", 0)
    /\ UNCHANGED <<view, formVars, listVars, dashVars, serverVars, viewVars, netVars, isEditing, isSaving, modalError,
                   showConfirmDiscardModal>>

\* handleCancel: leave edit mode and reset the edits (button disabled={isSaving}).
HandleCancel ==
    /\ ModalControls
    /\ isEditing
    /\ ~isSaving
    /\ isEditing' = FALSE
    /\ modalError' = NoError
    /\ editableLeadData' = InitialEditable(selectedLead)
    /\ lastEvent' = Event("ui", 0)
    /\ UNCHANGED <<view, formVars, listVars, dashVars, serverVars, viewVars, netVars, isSaving, showConfirmDiscardModal>>

\* updateData of handleSave.
SaveData(edited, ct) == [fullname |-> edited, last_updated_at |-> ct]

\* handleSave up to the await (button disabled={isSaving}).  The call takes
\* number nextRid; nextRid + 1 is kept for the fetch its success starts.
HandleSave ==
    /\ ModalControls
    /\ isEditing
    /\ ~isSaving
    /\ nextRid + 1 <= MaxReq
    /\ isSaving' = TRUE
    /\ modalError' = NoError
    /\ updates' = updates \cup {[rid |-> nextRid, kind |-> "save", lead |-> selectedLead[1].id,
                                 field |-> "lead", data |-> SaveData(editableLeadData, ClientNow),
                                 phase |-> "sent", res |-> "pending", alive |-> TRUE]}
    /\ nextRid' = nextRid + 2
    /\ lastEvent' = Event("save_issued", selectedLead[1].id)
    /\ UNCHANGED <<view, formVars, listVars, dashVars, serverVars, viewVars, fetches, isEditing, editableLeadData,
                   showConfirmDiscardModal>>

\* handleSave after the await.  Success: setIsEditing(false), onLeadUpdated()
\* (the view's fetch), onClose().  Failure: setError.  Finally setIsSaving(false).
\* The modal's setters act only while the instance that sent the save is mounted.
DeliverSave(r) ==
    /\ r \in updates
    /\ r.kind = "save"
    /\ r.phase = "responded"
    /\ IF r.res = "ok"
       THEN /\ FetchLeads(r.rid + 1)
            /\ isModalOpen' = FALSE
            /\ selectedLead' = NULL
            /\ updates' = Orphaned(updates \ {r})
            /\ ModalLocal(NULL, FALSE, FALSE, NoError, InitialEditable(NULL), FALSE)
       ELSE /\ UNCHANGED <<loading, error, fetches, isModalOpen, selectedLead>>
            /\ updates' = updates \ {r}
            /\ IF r.alive
               THEN /\ modalError' = ErrorText(r.res, "Failed to update lead")
                    /\ isSaving' = FALSE
                    /\ UNCHANGED <<isEditing, editableLeadData, showConfirmDiscardModal>>
               ELSE UNCHANGED modalVars
    /\ lastEvent' = Event(IF r.res = "ok" THEN "save_ok" ELSE "save_err", r.lead)
    /\ UNCHANGED <<view, formVars, listVars, dashVars, serverVars, leads, updatingLeads, nextRid>>

\* onClose() of the view, and the modal's effect on isOpen becoming false.
\* A closed modal renders nothing and handleLeadClick sets the lead and the
\* edit data anew, so the closed modal is kept without its stale lead.
CloseModal ==
    /\ isModalOpen' = FALSE
    /\ selectedLead' = NULL
    /\ editableLeadData' = InitialEditable(NULL)
    /\ isEditing' = FALSE
    /\ isSaving' = FALSE
    /\ modalError' = NoError
    /\ showConfirmDiscardModal' = FALSE

\* handleClose: the X button and the backdrop.
HandleClose ==
    /\ ModalControls
    /\ IF hasUnsavedChanges
       THEN /\ showConfirmDiscardModal' = TRUE
            /\ UNCHANGED <<isModalOpen, selectedLead, isEditing, isSaving, modalError,
                           editableLeadData>>
       ELSE CloseModal
    /\ lastEvent' = Event("ui", 0)
    /\ UNCHANGED <<view, formVars, listVars, dashVars, serverVars, leads, loading, error, updatingLeads, netVars>>

\* handleConfirmDiscard: performDiscardAndClose = handleCancel(); onClose().
HandleConfirmDiscard ==
    /\ ModalVisible
    /\ showConfirmDiscardModal
    /\ CloseModal
    /\ lastEvent' = Event("ui", 0)
    /\ UNCHANGED <<view, formVars, listVars, dashVars, serverVars, leads, loading, error, updatingLeads, netVars>>

HandleCancelDiscard ==
    /\ ModalVisible
    /\ showConfirmDiscardModal
    /\ showConfirmDiscardModal' = FALSE
    /\ lastEvent' = Event("ui", 0)
    /\ UNCHANGED <<view, formVars, listVars, dashVars, serverVars, viewVars, netVars, isEditing, isSaving, modalError,
                   editableLeadData>>

\* ------------------------------------------------------------- repository
\* The repository serves an update: one atomic row mutation, or an error.
\* A mutation takes place later than every call sent so far.
ServerUpdate(r) ==
    /\ r \in updates
    /\ r.phase = "sent"
    /\ \E o \in Outcomes :
         /\ updates' = (updates \ {r}) \cup {[r EXCEPT !.phase = "responded", !.res = o]}
         /\ IF o = "ok"
            THEN /\ now' = now + 1
                 /\ server' = [server EXCEPT ![r.lead] = ApplyUpdate(@, r.data, now')]
            ELSE UNCHANGED <<server, now>>
    /\ UNCHANGED <<view, formVars, listVars, dashVars, viewVars, modalVars, fetches, nextRid, lastEvent>>

Next ==
    \/ Refresh
    \/ Retry
    \/ \E r \in fetches : ServerFetch(r)
    \/ \E r \in fetches : DeliverFetch(r)
    \/ \E id \in LeadIds, f \in {"replied", "booked"}, v \in BOOLEAN : UpdateLeadStatus(id, f, v)
    \/ \E id \in LeadIds : UpdateBookedStatus(id)
    \/ \E r \in updates : ServerUpdate(r)
    \/ \E r \in updates : DeliverToggle(r)
    \/ \E id \in LeadIds : HandleLeadClick(id)
    \/ HandleEdit
    \/ \E v \in Names : HandleInputChange(v)
    \/ HandleCancel
    \/ HandleSave
    \/ \E r \in updates : DeliverSave(r)
    \/ HandleClose
    \/ HandleConfirmDiscard
    \/ HandleCancelDiscard

Spec == Init /\ [][Next]_vars

\* The repository answers every call and the event loop runs the continuation
\* of every answered call.
Fairness ==
    /\ WF_vars(\E r \in fetches : ServerFetch(r))
    /\ WF_vars(\E r \in fetches : DeliverFetch(r))
    /\ WF_vars(\E r \in updates : ServerUpdate(r))
    /\ WF_vars(\E r \in updates : DeliverToggle(r))
    /\ WF_vars(\E r \in updates : DeliverSave(r))

\* The initial tables in which every lead belongs to the mounted view.
InitListed ==
    /\ Init
    /\ \A id \in LeadIds : ViewPredicate(view, server[id])

FairSpec == InitListed /\ [][Next]_vars /\ Fairness

\* ------------------------------------------- the list views' own steps
\* r2's fields over r1's.
Merge(r1, r2) ==
    [f \in DOMAIN r1 \cup DOMAIN r2 |-> IF f \in DOMAIN r2 THEN r2[f] ELSE r1[f]]

\* The status columns of a row that the view v lists.
StatusOf(v, id) ==
    CASE v = "replies" -> [replied |-> TRUE, booked |-> FALSE, booked_at |-> NULL]
      [] v = "booked" -> [replied |-> TRUE, booked |-> TRUE, booked_at |-> Some(id)]
      [] OTHER -> [replied |-> FALSE, booked |-> FALSE, booked_at |-> NULL]

\* The kinds of profile a row of the small tables has.
Kinds == 1..4

\* The profile columns of a row of kind k: "Ab", "b", "a", "A", "" as code units.
Profile(k) ==
    CASE k = 1 -> [fullname |-> Some(<<65, 98>>), email |-> Some(<<98>>), company_name |-> NULL,
                   stage |-> "contacted", lead_source |-> Some("web"), industry |-> Some("tech")]
      [] k = 2 -> [fullname |-> NULL, email |-> NULL, company_name |-> Some(<<97>>),
                   stage |-> "nurture", lead_source |-> NULL, industry |-> Some("tech")]
      [] k = 3 -> [fullname |-> Some(<<97>>), email |-> Some(<<65>>), company_name |-> NULL,
                   stage |-> "contacted", lead_source |-> Some("web"), industry |-> NULL]
      [] OTHER -> [fullname |-> Some(<<>>), email |-> NULL, company_name |-> Some(<<65, 98>>),
                   stage |-> "nurture", lead_source |-> Some("ads"), industry |-> NULL]

\* A row of leads_pipeline that the view v lists, with the profile of kind k.
ListRow(id, k, v) ==
    Merge(Merge(Merge([id |-> id, last_updated_at |-> id], StatusOf(v, id)), Profile(k)),
          [booked_at |-> IF k % 2 = 0 THEN NULL ELSE StatusOf(v, id).booked_at])

\* The rows of the small tables.
ListIds == 1..(NumLeads + 1)

\* What is typed in the search box: "", "a", "AB".
SearchTerms == {<<>>, <<97>>, <<65, 66>>}

\* A list view has mounted over a small table of leads of every kind.
ListInit ==
    /\ \E v \in ListViews :
         /\ Mounted(v)
         /\ \E k \in [ListIds -> Kinds] : server = [id \in ListIds |-> ListRow(id, k[id], v)]
    /\ now = NumLeads + 1

ListNext ==
    \/ \E r \in fetches : ServerFetch(r)
    \/ \E r \in fetches : DeliverFetch(r)
    \/ \E term \in SearchTerms : HandleSearchChange(term)
    \/ \E f \in {"stage", "lead_source", "industry"}, value \in {"", "contacted", "web", "tech"} :
          HandleFilterChange(f, value)
    \/ ClearFilters
    \/ \E c \in {"fullname", "company_name", "last_updated_at", "booked_at"} : HandleSort(c)

\* A list view over a small table: the fetch of the mount, then search,
\* filters and sort over what it returned.
ListSpec == ListInit /\ [][ListNext]_vars

\* The number of rows of a long table: whole pages, and one row more.
RowCounts(v) == {p * leadsPerPage(v) + r : p \in 0..MaxPages, r \in {0, 1}}

\* Row id of a long table: the names alternate, every third row has an industry.
PageRow(id, v) ==
    Merge(Merge([id |-> id, last_updated_at |-> id], StatusOf(v, id)),
          [fullname |-> Some(IF id % 2 = 1 THEN <<97>> ELSE <<98>>), email |-> NULL,
           company_name |-> NULL, stage |-> "contacted", lead_source |-> NULL,
           industry |-> IF id % 3 = 0 THEN Some("tech") ELSE NULL,
           day_1_sent |-> TRUE, day_2_sent |-> id % 2 = 0])

\* A list view or the Dashboard has mounted over a long table.
PageInit ==
    \E v \in ListViews \cup {"dashboard"} :
       /\ Mounted(v)
       /\ \E n \in RowCounts(v) :
            /\ server = [id \in 1..n |-> PageRow(id, v)]
            /\ now = n

PageNext ==
    \/ Refresh
    \/ Retry
    \/ \E r \in fetches : ServerFetch(r)
    \/ \E r \in fetches : DeliverFetch(r)
    \/ \E term \in SearchTerms : HandleSearchChange(term)
    \/ \E f \in {"stage", "lead_source", "industry"}, value \in {"", "contacted", "tech"} :
          HandleFilterChange(f, value)
    \/ ClearFilters
    \/ \E c \in {"fullname", "last_updated_at", "booked_at"} : HandleSort(c)
    \/ PreviousPage
    \/ NextPage
    \/ \E pageNum \in 1..(MaxPages + 2) : GoToPage(pageNum)

\* A view over a long table: fetches, search, filters, sort and pagination.
PageSpec == PageInit /\ [][PageNext]_vars

\* The step flags of the sequence.
DayFlags == {"day_1_sent", "day_2_sent", "day_3_sent", "day_4_sent"}

\* A view that renders getCurrentStage / getNextStage has mounted over one
\* lead whose step flags are true, false or missing in every combination.
StageInit ==
    /\ \E v \in {"active", "all"} :
         /\ Mounted(v)
         /\ \E present \in SUBSET DayFlags : \E sent \in SUBSET present :
              server = [id \in {1} |-> Merge(ListRow(id, 1, v), [f \in present |-> f \in sent])]
    /\ now = 1

StageNext ==
    \/ Refresh
    \/ Retry
    \/ \E r \in fetches : ServerFetch(r)
    \/ \E r \in fetches : DeliverFetch(r)

\* The Active Campaigns or All Leads table over one lead: fetches only.
StageSpec == StageInit /\ [][StageNext]_vars

\* The kinds of progress a row of the Dashboard's tables has.
DashKinds == 1..8

\* The step and status columns of a row of kind k.
Progress(k) ==
    CASE k = 1 -> [replied |-> FALSE, booked |-> FALSE]
      [] k = 2 -> [day_1_sent |-> TRUE, day_1_sent_at |-> Some(1), replied |-> FALSE, booked |-> FALSE]
      [] k = 3 -> [day_1_sent |-> TRUE, day_1_sent_at |-> Some(1), day_2_sent |-> TRUE,
                   day_2_sent_at |-> NULL, replied |-> FALSE, booked |-> FALSE]
      [] k = 4 -> [day_1_sent |-> TRUE, day_2_sent |-> TRUE, day_3_sent |-> TRUE, day_4_sent |-> TRUE,
                   day_1_sent_at |-> Some(1), day_2_sent_at |-> Some(2), day_3_sent_at |-> Some(3),
                   day_4_sent_at |-> Some(4), replied |-> FALSE, booked |-> FALSE]
      [] k = 5 -> [day_1_sent |-> TRUE, day_1_sent_at |-> Some(1), day_2_sent |-> FALSE,
                   replied |-> TRUE, booked |-> FALSE]
      [] k = 6 -> [day_1_sent |-> TRUE, day_2_sent |-> TRUE, day_3_sent |-> TRUE, day_4_sent |-> TRUE,
                   day_4_sent_at |-> Some(4), replied |-> TRUE, booked |-> TRUE]
      [] k = 7 -> [day_1_sent |-> FALSE, day_3_sent |-> TRUE, day_3_sent_at |-> Some(3),
                   replied |-> FALSE, booked |-> FALSE]
      [] OTHER -> [replied |-> FALSE, booked |-> TRUE]

DashRow(id, k) ==
    Merge([id |-> id, last_updated_at |-> id, booked_at |-> NULL, stage |-> "contacted"], Progress(k))

\* The Dashboard has mounted over a table of leads of every progress.
DashInit ==
    /\ Mounted("dashboard")
    /\ \E k \in [ListIds -> DashKinds] :
         /\ \A i, j \in ListIds : i < j => k[i] <= k[j]
         /\ server = [id \in ListIds |-> DashRow(id, k[id])]
    /\ now = NumLeads + 1

DashNext ==
    \/ Refresh
    \/ Retry
    \/ \E r \in fetches : ServerFetch(r)
    \/ \E r \in fetches : DeliverFetch(r)

\* The Dashboard: fetches and the aggregations of what they return.
DashSpec == DashInit /\ [][DashNext]_vars

\* The industry and lead source of a row of kind k.
Segment(k) ==
    CASE k = 1 -> [industry |-> NULL, lead_source |-> NULL]
      [] k = 2 -> [industry |-> Some(""), lead_source |-> Some("web")]
      [] k = 3 -> [industry |-> Some("tech"), lead_source |-> Some("web")]
      [] k = 4 -> [industry |-> Some("tech"), lead_source |-> NULL]
      [] k = 5 -> [industry |-> Some("Unknown"), lead_source |-> Some("ads")]
      [] k = 6 -> [industry |-> Some("constructor"), lead_source |-> Some("web")]
      [] k = 7 -> [industry |-> Some("retail"), lead_source |-> Some("__proto__")]
      [] OTHER -> [industry |-> Some("retail"), lead_source |-> Some("ads")]

\* A row the view v aggregates: any progress in the Dashboard, booked in
\* Booked Meetings.
AggRow(id, k, v) ==
    Merge(Merge(DashRow(id, k), Segment(k)),
          IF v = "booked" THEN StatusOf(v, id) ELSE [stage |-> "contacted"])

\* The Dashboard or Booked Meetings has mounted over a table of 0 to
\* NumLeads + 1 rows of every kind.
AggInit ==
    \E v \in {"dashboard", "booked"} : \E n \in 0..(NumLeads + 1) :
       /\ Mounted(v)
       /\ \E k \in [1..n -> DashKinds] : server = [id \in 1..n |-> AggRow(id, k[id], v)]
       /\ now = n

AggNext ==
    \/ Refresh
    \/ Retry
    \/ \E r \in fetches : ServerFetch(r)
    \/ \E r \in fetches : DeliverFetch(r)

\* The aggregating views: fetches and the aggregations of what they return.
AggSpec == AggInit /\ [][AggNext]_vars

\* The row of lead id is on the page the list shows: currentLeads.map(...).
RowShown(id) ==
    \E o \in CompareOrders :
       id \in Ids(currentLeads(sortedLeads(o), currentPage, leadsPerPage(view)))

\* The leads whose toggle buttons the user clicks in a long table.
ToggleIds == {1, 2}

\* A status view has mounted over a table whose last page holds one lead.
RemovalInit ==
    \E v \in Views : \E p \in 1..MaxPages :
       /\ Mounted(v)
       /\ server = [id \in 1..(p * leadsPerPage(v) + 1) |-> PageRow(id, v)]
       /\ now = p * leadsPerPage(v) + 1

RemovalNext ==
    \/ \E r \in fetches : ServerFetch(r)
    \/ \E r \in fetches : DeliverFetch(r)
    \/ \E id \in ToggleIds, f \in {"replied", "booked"}, v \in BOOLEAN :
          UpdateLeadStatus(id, f, v) /\ RowShown(id)
    \/ \E id \in ToggleIds : UpdateBookedStatus(id) /\ RowShown(id)
    \/ \E r \in updates : ServerUpdate(r)
    \/ \E r \in updates : DeliverToggle(r)
    \/ \E term \in {<<>>, <<97>>} : HandleSearchChange(term)
    \/ HandleSort("last_updated_at")
    \/ PreviousPage
    \/ NextPage
    \/ \E pageNum \in 1..(MaxPages + 2) : GoToPage(pageNum)

\* A status view over a long table: paging, searching, sorting and the
\* toggles of the rows shown.
RemovalSpec == RemovalInit /\ [][RemovalNext]_vars

\* A status view whose first fetch has been answered with the table's leads;
\* the repository calls are numbered from there.
ListedInit ==
    /\ \E v \in Views : view = v
    /\ \E k \in [LeadIds -> 1..4] :
         /\ \A i, j \in LeadIds : i < j => k[i] <= k[j]
         /\ server = [id \in LeadIds |-> InitRow(id, k[id])]
    /\ now = NumLeads
    /\ leads \in FetchResults(view, server)
    /\ loading = FALSE
    /\ error = NoError
    /\ updatingLeads = {}
    /\ selectedLead = NULL
    /\ isModalOpen = FALSE
    /\ isEditing = FALSE
    /\ isSaving = FALSE
    /\ modalError = NoError
    /\ editableLeadData = ""
    /\ showConfirmDiscardModal = FALSE
    /\ fetches = {}
    /\ updates = {}
    /\ nextRid = 1
    /\ lastEvent = Event("fetch_ok", 0)
    /\ searchTerm = <<>>
    /\ filters = NoFilters(view)
    /\ sortColumn = InitialSortColumn(view)
    /\ sortDirection = "desc"
    /\ currentPage = 1
    /\ metrics = NoMetrics
    /\ funnelStages = <<>>
    /\ recentActivity = <<>>
    /\ FormMounted(NULL)

\* A status view from its first list on: toggles, the detail modal, fetches.
ListedSpec == ListedInit /\ [][Next]_vars

\* What the user types and ticks in the form.
TitleInputs == {<<>>, <<32>>, <<32, 97>>}
TextInputs == {<<>>, <<98, 32>>}
SizeInputs == {companySizeOptions[1], companySizeOptions[2]}

\* The Lead Generation form has mounted; no status view is on screen.
FormInit ==
    /\ view = "lead-generation"
    /\ \E url \in {NULL, Some("https://webhook")} : FormMounted(url)
    /\ server = [id \in LeadIds |-> InitRow(id, 2)]
    /\ now = NumLeads
    /\ leads = <<>>
    /\ loading = FALSE
    /\ error = NoError
    /\ updatingLeads = {}
    /\ selectedLead = NULL
    /\ isModalOpen = FALSE
    /\ isEditing = FALSE
    /\ isSaving = FALSE
    /\ modalError = NoError
    /\ editableLeadData = ""
    /\ showConfirmDiscardModal = FALSE
    /\ fetches = {}
    /\ updates = {}
    /\ nextRid = 1
    /\ lastEvent = Event("mount", 0)
    /\ searchTerm = <<>>
    /\ filters = NoFilters("active")
    /\ sortColumn = InitialSortColumn("active")
    /\ sortDirection = "desc"
    /\ currentPage = 1
    /\ metrics = NoMetrics
    /\ funnelStages = <<>>
    /\ recentActivity = <<>>

FormNext ==
    \/ \E value \in TitleInputs : handleInputChange("jobTitle", value)
    \/ \E field \in {"keywords", "location"} : \E value \in TextInputs :
          handleInputChange(field, value)
    \/ \E value \in SizeInputs : handleCompanySizeChange(value)
    \/ \E via \in {"button", "event"} : handleSubmit(via)
    \/ \E b \in BagToSet(webhook) : \E o \in PostOutcomes : DeliverSubmit(b, o)
    \/ clearForm

\* The Lead Generation form: typing, ticking, submitting, the webhook's answers.
FormSpec == FormInit /\ [][FormNext]_vars

\* ================================================================= claims
\* The toggle updates of lead id that are in flight.
ToggleReqs(id) == {r \in updates : r.kind = "toggle" /\ r.lead = id}

\* The step runs the continuation of toggle call r (the call leaves updates).
Completes(r) == r \in updates /\ r.kind = "toggle" /\ r.phase = "responded" /\ r \notin updates'

\* ls2 is ls1 without its leads of this id: every other lead kept, in order.
IsWithout(ls2, ls1, id) ==
    LET kept == {i \in DOMAIN ls1 : ls1[i].id # id}
        before(i) == Cardinality({j \in kept : j < i})
    IN  /\ Len(ls2) = Cardinality(kept)
        /\ \A i \in kept : ls2[before(i) + 1] = ls1[i]

\* C1: when a toggle update of lead X is reported successful, the handler
\* removes exactly X from the local collection (X is gone, every other lead
\* stays, in the same relative order) and issues no fetch.
C1_SuccessRemovesExactlyTheLead ==
    [][\A r \in updates :
         (Completes(r) /\ r.res = "ok") =>
            /\ r.lead \notin Ids(leads')
            /\ IsWithout(leads', leads, r.lead)
            /\ fetches' = fetches
            /\ loading' = loading]_vars

\* A toggle has just succeeded and left another lead in the list.
C1_Witness ==
    /\ lastEvent.kind = "toggle_ok"
    /\ lastEvent.lead \notin Ids(leads)
    /\ Len(leads) >= 1
    /\ fetches = {}

\* C2: when a toggle update of lead X is reported failed, the handler leaves
\* the local collection as it is, stores the error message in the view's
\* error state and takes X out of the in-flight set.
C2_FailureKeepsCollection ==
    [][\A r \in updates :
         (Completes(r) /\ r.res # "ok") =>
            /\ leads' = leads
            /\ (r.lead \in Ids(leads) => r.lead \in Ids(leads'))
            /\ error' # NoError
            /\ error' \in {"err.message", "Failed to update " \o r.field}
            /\ r.lead \notin updatingLeads']_vars

\* A toggle has just failed: its lead is listed, the error is stored.
C2_Witness ==
    /\ lastEvent.kind = "toggle_err"
    /\ lastEvent.lead \in Ids(leads)
    /\ error # NoError
    /\ lastEvent.lead \notin updatingLeads

\* C3: whenever no fetch and no update is in flight, every lead of the local
\* collection satisfies the view's membership predicate in the repository.
C3_QuiescentListMatchesRepository ==
    (fetches = {} /\ updates = {}) =>
        \A i \in DOMAIN leads : ViewPredicate(view, server[leads[i].id])

\* C4: a toggle handler removes its lead from the local collection only after
\* the repository has reported success for that update: sending the update
\* puts the id in the in-flight set and leaves the collection alone, and a
\* lead leaves the collection (other than by a fetch result replacing it) only
\* in the step that consumes a successful response for it.
C4_UpdateThenMutateLocal ==
    [][/\ \A r \in updates' :
            (r.kind = "toggle" /\ r.rid \notin {u.rid : u \in updates}) =>
               /\ r.phase = "sent"
               /\ leads' = leads
               /\ r.lead \in Ids(leads')
               /\ r.lead \in updatingLeads'
       /\ fetches' = fetches =>
            \A id \in Ids(leads) \ Ids(leads') :
               \E r \in updates : Completes(r) /\ r.lead = id /\ r.res = "ok"]_vars

\* Success has been reported for a toggle whose lead is still listed.
C4_Witness ==
    \E r \in updates :
       /\ r.kind = "toggle"
       /\ r.phase = "responded"
       /\ r.res = "ok"
       /\ r.lead \in Ids(leads)
       /\ r.lead \in updatingLeads

\* C5: while a toggle update of lead X is in flight, X is in updatingLeads and
\* its toggles are disabled, so no second toggle update of X is in flight;
\* the toggles of the rendered leads with no update in flight are enabled.
C5_InFlightToggleIsGated ==
    \A id \in LeadIds :
       /\ ToggleReqs(id) # {} =>
             /\ id \in updatingLeads
             /\ ToggleDisabled(id)
             /\ ~ToggleEnabled(id)
             /\ Cardinality(ToggleReqs(id)) = 1
       /\ (ToggleReqs(id) = {} /\ MainBranch /\ ~ModalVisible /\ id \in Ids(leads)) =>
             ToggleEnabled(id)

\* One lead has a toggle in flight while another lead's toggle is enabled.
C5_Witness ==
    \E x, y \in LeadIds :
       /\ x # y
       /\ ToggleReqs(x) # {}
       /\ x \in Ids(leads)
       /\ ToggleEnabled(y)

\* C6: every toggle update that is issued ends with its lead id out of
\* updatingLeads, on success and on error alike, once the repository has
\* responded: no id stays in the set forever, an id is in the set only while
\* a toggle update of it is outstanding, and the step that completes a toggle
\* leaves its id out of the set.
C6_InFlightFlagIsCleared ==
    /\ \A id \in LeadIds : []<>(id \notin updatingLeads)
    /\ [](\A id \in updatingLeads : ToggleReqs(id) # {})
    /\ [][\A r \in updates : Completes(r) => r.lead \notin updatingLeads']_vars

\* A toggle has failed and the in-flight set is empty again.
C6_Witness ==
    /\ lastEvent.kind = "toggle_err"
    /\ updatingLeads = {}
    /\ updates = {}

\* C7: after a failed toggle update of lead X the view still lists X and the
\* same toggle of X is enabled, so that it can be invoked again without a
\* fetch replacing the collection first.
C7_FailedToggleCanBeInvokedAgain ==
    lastEvent.kind = "toggle_err" =>
        /\ lastEvent.lead \in Ids(leads)
        /\ ToggleEnabled(lastEvent.lead)

\* The writes of a toggle payload, as (field, value) pairs.
Writes(d) ==
    {<<f, d[f]>> : f \in DOMAIN d \cap {"replied", "booked"}}

\* C8: every toggle a view issues writes a value under which the lead fails
\* the view's own predicate: Active only replied=true or booked=true, Replies
\* only replied=false or booked=true, Booked only booked=false; a lead removed
\* after a successful toggle does not belong to the view in the repository.
C8_ToggleLeavesTheView ==
    /\ \A r \in updates :
          r.kind = "toggle" =>
             /\ Cardinality(Writes(r.data)) = 1
             /\ Writes(r.data) \subseteq
                   (CASE view = "active" -> {<<"replied", TRUE>>, <<"booked", TRUE>>}
                      [] view = "replies" -> {<<"replied", FALSE>>, <<"booked", TRUE>>}
                      [] view = "booked" -> {<<"booked", FALSE>>})
             /\ \A id \in LeadIds : ~ViewPredicate(view, ApplyUpdate(server[id], r.data, now))
             /\ (r.phase = "responded" /\ r.res = "ok") => ~ViewPredicate(view, server[r.lead])
    /\ lastEvent.kind = "toggle_ok" => ~ViewPredicate(view, server[lastEvent.lead])

\* The Replies view has cleared replied on a lead and removed it.
C8_Witness ==
    /\ view = "replies"
    /\ lastEvent.kind = "toggle_ok"
    /\ server[lastEvent.lead].replied = FALSE
    /\ lastEvent.lead \notin Ids(leads)

\* C9: booked_at is set iff booked is true, in every row after every update
\* the client issues: a payload that sets booked = true carries a non-null
\* booked_at, one that sets booked = false carries booked_at = null, and one
\* that does not write booked does not write booked_at.
C9_BookedAtIffBooked ==
    /\ \A id \in LeadIds : server[id].booked <=> server[id].booked_at # NULL
    /\ \A r \in updates :
          IF "booked" \in DOMAIN r.data
          THEN /\ "booked_at" \in DOMAIN r.data
               /\ r.data.booked <=> r.data.booked_at # NULL
          ELSE "booked_at" \notin DOMAIN r.data

\* The Active view has booked a lead: the row is booked with its booked_at set.
C9_Witness ==
    /\ view = "active"
    /\ lastEvent.kind = "toggle_ok"
    /\ server[lastEvent.lead].booked
    /\ server[lastEvent.lead].booked_at # NULL

\* C10: a row's last_updated_at never decreases, and every mutation of a row
\* (toggle or modal save) sets it to the time of that mutation.
C10_LastUpdatedAtMonotone ==
    [][/\ \A id \in LeadIds : server'[id].last_updated_at >= server[id].last_updated_at
       /\ \A r \in updates :
            (/\ r.phase = "sent"
             /\ \E u \in updates' : u.rid = r.rid /\ u.phase = "responded" /\ u.res = "ok") =>
               /\ now' > now
               /\ server'[r.lead].last_updated_at = now']_vars

\* A modal save has just mutated a row, after the rows' creation.
C10_Witness ==
    /\ lastEvent.kind = "save_ok"
    /\ now > NumLeads
    /\ \E id \in LeadIds : server[id].fullname = "b" /\ server[id].last_updated_at = now

\* The step runs the continuation of the failed fetch r.
FetchFails(r) == r \in fetches /\ r.phase = "responded" /\ r.res # "ok" /\ r \notin fetches'

\* C11: when a fetch fails, the view's leads, search term, filters, sort and
\* page (and the Dashboard's aggregations) stay exactly as they were; error
\* becomes the failure message and loading false.  The Retry button of the
\* error screen issues the view's fetch again: loading, no error, one more
\* query in flight for the same view.
C11_FetchFailureKeepsLocalState ==
    [][/\ \A r \in fetches :
            FetchFails(r) =>
               /\ leads' = leads
               /\ UNCHANGED <<listVars, dashVars, view>>
               /\ error' \in {"err.message", FetchFallback(view)}
               /\ error' # NoError
               /\ loading' = FALSE
       /\ (error # NoError /\ ~loading /\ fetches' # fetches /\ Cardinality(fetches') > Cardinality(fetches)) =>
               /\ fetches' \ fetches = {[rid |-> nextRid, phase |-> "sent", res |-> "pending", data |-> <<>>]}
               /\ loading' = TRUE
               /\ error' = NoError
               /\ leads' = leads
               /\ UNCHANGED <<listVars, dashVars, view>>]_vars

\* A fetch has just failed on the second page of a list that is still shown
\* as it was fetched before.
C11_Witness ==
    /\ lastEvent.kind = "fetch_err"
    /\ error # NoError
    /\ ~loading
    /\ fetches = {}
    /\ leads # <<>>
    /\ currentPage = 2

\* A letter a-z folded to its capital.
C12_Fold(ch) == IF ch \in 97..122 THEN ch - 32 ELSE ch

\* term occurs in text at some offset, letter case aside.
C12_Occurs(text, term) ==
    \E i \in 1..(Len(text) - Len(term) + 1) :
       \A j \in 1..Len(term) : C12_Fold(text[i + j - 1]) = C12_Fold(term[j])

\* The lead passes the search term and every field filter of the view.
C12_Selected(lead) ==
    /\ \/ searchTerm = <<>>
       \/ \E col \in {"fullname", "email", "company_name"} :
             lead[col] # NULL /\ C12_Occurs(lead[col][1], searchTerm)
    /\ \A f \in DOMAIN filters :
          \/ filters[f] = ""
          \/ IF f = "stage" THEN lead.stage = filters[f] ELSE lead[f] = Some(filters[f])

\* C12: a lead is in the filtered list iff (the search term is empty or occurs
\* case-insensitively in its fullname, email or company_name) and every field
\* filter is empty or equals the lead's value; the filtered list keeps the
\* order of the leads, and with an empty term and no filters it is the leads.
C12_FilteredListIsTheSelection ==
    LET kept == {i \in DOMAIN leads : C12_Selected(leads[i])}
    IN  /\ Len(filteredLeads) = Cardinality(kept)
        /\ \A i \in kept : filteredLeads[Cardinality({j \in kept : j < i}) + 1] = leads[i]
        /\ (searchTerm = <<>> /\ \A f \in DOMAIN filters : filters[f] = "") => filteredLeads = leads

\* "AB" is searched with a field filter set: some leads are listed, some not.
C12_Witness ==
    /\ lastEvent.kind \in {"search", "filter"}
    /\ searchTerm = <<65, 66>>
    /\ \E f \in DOMAIN filters : filters[f] # ""
    /\ Len(filteredLeads) >= 1
    /\ Len(filteredLeads) < Len(leads)

\* The lead's value in the sort column is null.
C13_Null(lead) == sortColumn # "last_updated_at" /\ lead[sortColumn] = NULL

C14_TextBefore(a, b) ==
    \E k \in 1..Len(b) :
       /\ \A j \in 1..(k - 1) : j <= Len(a) /\ a[j] = b[j]
       /\ Len(a) >= k - 1
       /\ (Len(a) = k - 1 \/ a[k] < b[k])

\* Lead a's defined sort-column value is strictly smaller than lead b's.
C14_Smaller(a, b) ==
    CASE sortColumn = "last_updated_at" -> a.last_updated_at < b.last_updated_at
      [] sortColumn = "booked_at" -> a.booked_at[1] < b.booked_at[1]
      [] OTHER -> C14_TextBefore(a[sortColumn][1], b[sortColumn][1])

\* The lead's value in the sort column is defined.
C14_Defined(lead) == sortColumn = "last_updated_at" \/ lead[sortColumn] # NULL

\* C14: the sorted list is a permutation of the filtered list, and its leads
\* with a defined sort-column value are in non-decreasing order of the value
\* when the direction is ascending, non-increasing when it is descending.
C14_SortedIsOrderedPermutation ==
    view # "replies" =>
       \A o \in CompareOrders :
          LET s == sortedLeads(o)
              f == filteredLeads
          IN  /\ Len(s) = Len(f)
              /\ \A x \in {f[i] : i \in DOMAIN f} \cup {s[i] : i \in DOMAIN s} :
                    Cardinality({i \in DOMAIN s : s[i] = x}) = Cardinality({i \in DOMAIN f : f[i] = x})
              /\ \A i, j \in DOMAIN s :
                    (i < j /\ C14_Defined(s[i]) /\ C14_Defined(s[j])) =>
                       IF sortDirection = "asc"
                       THEN ~C14_Smaller(s[j], s[i])
                       ELSE ~C14_Smaller(s[i], s[j])

\* A descending sort by name rearranges three leads with defined names.
C14_Witness ==
    /\ lastEvent.kind = "sort"
    /\ sortColumn = "fullname"
    /\ sortDirection = "desc"
    /\ Len(filteredLeads) = 3
    /\ \A i \in 1..3 : C14_Defined(filteredLeads[i])
    /\ sortedLeads("later_first") # filteredLeads
    /\ C14_Smaller(sortedLeads("later_first")[3], sortedLeads("later_first")[1])

\* The list the view paginates (the order of null values does not matter here).
C15_List == sortedLeads("later_first")

RECURSIVE C15_Concat(_, _)
\* The pages 1..t of the family pages, one after the other.
C15_Concat(pages, t) == IF t = 0 THEN <<>> ELSE C15_Concat(pages, t - 1) \o pages[t]

\* C15: with page size S (25, 20 in Replies) page p of the n-element list holds
\* the elements at positions (p-1)*S+1 .. min(p*S, n); totalPages is
\* ceil(n/S); the pages 1..totalPages are disjoint, non-empty, at most S long
\* and concatenated give the list; a page beyond totalPages is empty.
C15_PagesPartitionTheList ==
    LET L == C15_List
        n == Len(L)
        S == leadsPerPage(view)
        t == totalPages(n, S)
        last(p) == IF p * S < n THEN p * S ELSE n
        pages == [p \in 1..(t + 2) |-> currentLeads(L, p, S)]
    IN  /\ S = (IF view = "replies" THEN 20 ELSE 25)
        /\ t * S >= n
        /\ t >= 0
        /\ (t > 0 => (t - 1) * S < n)
        /\ \A p \in 1..(t + 2) :
              /\ Len(pages[p]) = (IF last(p) > (p - 1) * S THEN last(p) - (p - 1) * S ELSE 0)
              /\ \A k \in 1..Len(pages[p]) : pages[p][k] = L[(p - 1) * S + k]
        /\ \A p \in 1..t : Len(pages[p]) >= 1 /\ Len(pages[p]) <= S
        /\ \A p, q \in 1..t : p # q => Ids(pages[p]) \cap Ids(pages[q]) = {}
        /\ C15_Concat(pages, t) = L
        /\ \A p \in (t + 1)..(t + 2) : pages[p] = <<>>

\* The last page of a list of whole pages and one lead more is shown.
C15_Witness ==
    /\ lastEvent.kind = "page"
    /\ TotalPages >= 2
    /\ currentPage = TotalPages
    /\ Len(currentLeads(C15_List, currentPage, leadsPerPage(view))) = 1
    /\ Len(C15_List) = (currentPage - 1) * leadsPerPage(view) + 1


\* C16: in every list view every operation that changes the search term or a
\* field filter (typing in the search box, handleFilterChange, clearFilters)
\* leaves currentPage equal to 1, whatever page was shown before.
C16_SearchAndFiltersResetThePage ==
    [][(searchTerm' # searchTerm \/ filters' # filters) => currentPage' = 1]_vars

\* A search has just narrowed a list that still has several pages: the first
\* is shown.
C16_Witness ==
    /\ lastEvent.kind = "search"
    /\ searchTerm # <<>>
    /\ TotalPages >= 2
    /\ currentPage = 1

\* C17: the search-filter-sort pipeline is idempotent: applied to its own
\* output, with the same search term, filters, sort column and direction, it
\* gives the same list in the same order as applied once to the leads,
\* whichever way the engine's sort calls the comparator.
C17_PipelineIsIdempotent ==
    \A o \in CompareOrders :
       Pipeline(view, sortedLeads(o), searchTerm, filters, o, sortColumn, sortDirection) = sortedLeads(o)

\* The steps N in 1..4 whose day_N_sent flag the lead has, and has true.
StepsSent(lead) ==
    {n \in 1..4 : LET f == <<"day_1_sent", "day_2_sent", "day_3_sent", "day_4_sent">>[n]
                  IN  f \in DOMAIN lead /\ lead[f] = TRUE}

\* C18: getCurrentStage returns "Day N Sent" for the highest N in 1..4 whose
\* day_N_sent flag is true and "Not Started" when none is, for every
\* combination of the flags, out-of-order ones included, a missing flag
\* counting as false.
C18_CurrentStageIsHighestSent ==
    \A i \in DOMAIN leads :
       LET sent == StepsSent(leads[i])
       IN  getCurrentStage(leads[i]) =
              (IF sent = {} THEN "Not Started"
               ELSE <<"Day 1 Sent", "Day 2 Sent", "Day 3 Sent", "Day 4 Sent">>[
                        CHOOSE n \in sent : \A k \in sent : k <= n])

\* A listed lead has only step 3 sent, out of order, its step 1 flag missing.
C18_Witness ==
    /\ lastEvent.kind = "fetch_ok"
    /\ Len(leads) = 1
    /\ StepsSent(leads[1]) = {3}
    /\ "day_1_sent" \notin DOMAIN leads[1]
    /\ "day_2_sent" \in DOMAIN leads[1]
    /\ getCurrentStage(leads[1]) = "Day 3 Sent"

\* C19: getNextStage returns "Awaiting Day N" for the lowest N in 1..4 whose
\* day_N_sent flag is not true and "Sequence Complete" iff all four are true,
\* whatever getCurrentStage returns: "Awaiting Day 1" with no step sent,
\* "Awaiting Day 4" with exactly steps 1-3 sent.
C19_NextStageIsLowestUnsent ==
    \A i \in DOMAIN leads :
       LET unsent == (1..4) \ StepsSent(leads[i])
       IN  /\ getNextStage(leads[i]) =
                 (IF unsent = {} THEN "Sequence Complete"
                  ELSE <<"Awaiting Day 1", "Awaiting Day 2", "Awaiting Day 3", "Awaiting Day 4">>[
                           CHOOSE n \in unsent : \A k \in unsent : n <= k])
           /\ getNextStage(leads[i]) = "Sequence Complete" <=> StepsSent(leads[i]) = 1..4
           /\ StepsSent(leads[i]) = {} => getNextStage(leads[i]) = "Awaiting Day 1"
           /\ StepsSent(leads[i]) = 1..3 =>
                 /\ getNextStage(leads[i]) = "Awaiting Day 4"
                 /\ getCurrentStage(leads[i]) = "Day 3 Sent"

\* A listed lead has steps 1 and 3 sent and step 2 not: the next stage is
\* step 2 while the current stage is step 3.
C19_Witness ==
    /\ lastEvent.kind = "fetch_ok"
    /\ Len(leads) = 1
    /\ StepsSent(leads[1]) = {1, 3}
    /\ getNextStage(leads[1]) = "Awaiting Day 2"
    /\ getCurrentStage(leads[1]) = "Day 3 Sent"

\* The fields of the funnel's checkpoints, in order.
C20_Fields == <<"day_1_sent", "day_2_sent", "day_3_sent", "day_4_sent", "replied", "booked">>

\* The number of the leads ls that satisfy checkpoint i.
C20_Count(ls, i) ==
    Cardinality({k \in DOMAIN ls : C20_Fields[i] \in DOMAIN ls[k] /\ ls[k][C20_Fields[i]] = TRUE})

\* The largest of the six counts of ls.
C20_Largest(ls) ==
    CHOOSE m \in {C20_Count(ls, i) : i \in 1..6} : \A i \in 1..6 : C20_Count(ls, i) <= m

\* The leads with checkpoint i of lead k raised to true.
C20_Raised(k, i) ==
    [leads EXCEPT ![k] = Merge(@, [f \in {C20_Fields[i]} |-> TRUE])]

\* The percentages p and q are different numbers.
C20_Differ(p, q) == p.num * q.den # q.num * p.den

\* Raising checkpoint i of lead k changes the percentage of checkpoint j.
C20_RaiseChanges(k, i, j) ==
    /\ ~Truthy(leads[k], C20_Fields[i])
    /\ j # i
    /\ C20_Differ(FunnelStagesOf(C20_Raised(k, i))[j].percentage, funnelStages[j].percentage)

\* C20: for every fetched collection the funnel has the six checkpoints in the
\* order day_1_sent, day_2_sent, day_3_sent, day_4_sent, replied, booked, each
\* with the count of the leads satisfying it and the percentage
\* count / max(the six counts, 1) * 100; every percentage is between 0 and
\* 100, a checkpoint with the maximal non-zero count has 100, and raising one
\* checkpoint's count changes another's percentage only when the raised count
\* becomes the new maximum.
C20_FunnelSharesOneDenominator ==
    funnelStages # <<>> =>
       LET D == IF C20_Largest(leads) > 1 THEN C20_Largest(leads) ELSE 1
       IN  /\ Len(funnelStages) = 6
           /\ [i \in 1..6 |-> funnelStages[i].name] =
                 <<"Day 1 Sent", "Day 2 Sent", "Day 3 Sent", "Day 4 Sent", "Replied", "Booked">>
           /\ \A i \in 1..6 :
                 LET p == funnelStages[i].percentage
                 IN  /\ funnelStages[i].count = C20_Count(leads, i)
                     /\ p.den > 0
                     /\ p.num * D = C20_Count(leads, i) * 100 * p.den
                     /\ p.num >= 0
                     /\ p.num <= 100 * p.den
                     /\ (C20_Count(leads, i) = C20_Largest(leads) /\ C20_Count(leads, i) > 0)
                           => p.num = 100 * p.den
           /\ \A k \in DOMAIN leads : \A i, j \in 1..6 :
                 C20_RaiseChanges(k, i, j) =>
                    /\ C20_Count(C20_Raised(k, i), i) = C20_Largest(C20_Raised(k, i))
                    /\ C20_Count(C20_Raised(k, i), i) > C20_Largest(leads)

\* The funnel of a fetched collection has a checkpoint strictly between 0 and
\* 100 percent, and a lead whose raise makes a new maximum and changes it.
C20_Witness ==
    /\ lastEvent.kind = "fetch_ok"
    /\ funnelStages # <<>>
    /\ \E j \in 1..6 :
          /\ funnelStages[j].percentage.num > 0
          /\ funnelStages[j].percentage.num < 100 * funnelStages[j].percentage.den
          /\ \E k \in DOMAIN leads : \E i \in 1..6 : C20_RaiseChanges(k, i, j)
    /\ \E k \in DOMAIN leads : \E i \in 1..6 :
          /\ ~Truthy(leads[k], C20_Fields[i])
          /\ \A j \in (1..6) \ {i} : ~C20_RaiseChanges(k, i, j)

\* C21: on an empty lead collection the aggregations give all-zero scalar
\* counts, six funnel checkpoints with count 0 and percentage 0, and empty
\* industry and source breakdowns; no percentage is a division by zero.
C21_EmptyCollectionAggregates ==
    /\ (view = "dashboard" /\ funnelStages # <<>>) =>
          /\ \A i \in DOMAIN funnelStages : funnelStages[i].percentage.den # 0
          /\ leads = <<>> =>
                /\ metrics = [totalLeads |-> 0, totalEmailsSent |-> 0,
                              repliesReceived |-> 0, meetingsBooked |-> 0]
                /\ Len(funnelStages) = 6
                /\ \A i \in 1..6 :
                      /\ funnelStages[i].count = 0
                      /\ funnelStages[i].percentage.num = 0
    /\ (view = "booked" /\ leads = <<>>) =>
          \A o \in CompareOrders :
             /\ analytics(o).industryData = <<>>
             /\ analytics(o).sourceData = <<>>
    /\ (view = "booked" /\ leads # <<>>) =>
          \A o \in CompareOrders :
             \A i \in DOMAIN analytics(o).industryData :
                analytics(o).industryData[i].count.t = "number"
                   => analytics(o).industryData[i].percentage.den # 0

\* The Dashboard has fetched an empty collection and stored its aggregations.
C21_Witness ==
    /\ view = "dashboard"
    /\ lastEvent.kind = "fetch_ok"
    /\ leads = <<>>
    /\ server = <<>>
    /\ Len(funnelStages) = 6

\* The number of N in 1..4 for which the lead has a non-null day_N_sent_at.
C22_EmailsOf(lead) ==
    Cardinality({n \in 1..4 :
        LET f == <<"day_1_sent_at", "day_2_sent_at", "day_3_sent_at", "day_4_sent_at">>[n]
        IN  f \in DOMAIN lead /\ lead[f] # NULL})

RECURSIVE C22_Emails(_, _)
\* The emails of the first n leads.
C22_Emails(ls, n) == IF n = 0 THEN 0 ELSE C22_Emails(ls, n - 1) + C22_EmailsOf(ls[n])

\* C22: the Dashboard's scalar metrics of a fetched collection are
\* totalLeads = the number of leads, totalEmailsSent = the sum over the leads
\* of the number of N in 1..4 with a non-null day_N_sent_at, repliesReceived =
\* the number of leads with replied true, meetingsBooked = the number with
\* booked true, the last two equal to the funnel's Replied and Booked counts.
C22_ScalarMetrics ==
    funnelStages # <<>> =>
       /\ metrics.totalLeads = Len(leads)
       /\ metrics.totalEmailsSent = C22_Emails(leads, Len(leads))
       /\ metrics.repliesReceived = Cardinality({i \in DOMAIN leads : leads[i].replied = TRUE})
       /\ metrics.meetingsBooked = Cardinality({i \in DOMAIN leads : leads[i].booked = TRUE})
       /\ metrics.repliesReceived = funnelStages[5].count
       /\ metrics.meetingsBooked = funnelStages[6].count
       /\ funnelStages[5].name = "Replied"
       /\ funnelStages[6].name = "Booked"

\* The Dashboard has fetched leads whose sent flags and sent timestamps differ
\* in number, some of them replied and booked.
C22_Witness ==
    /\ view = "dashboard"
    /\ lastEvent.kind = "fetch_ok"
    /\ metrics.totalLeads = Len(leads)
    /\ metrics.totalEmailsSent > 0
    /\ metrics.totalEmailsSent < funnelStages[1].count + funnelStages[2].count
                                    + funnelStages[3].count + funnelStages[4].count
    /\ metrics.repliesReceived > metrics.meetingsBooked
    /\ metrics.meetingsBooked > 0

\* The group key of a lead: its value of the field, "Unknown" when the value
\* is null or the empty string.
C23_KeyOf(lead, f) == IF lead[f] = NULL \/ lead[f] = Some("") THEN "Unknown" ELSE lead[f][1]

\* The entries es break the leads down by the field f: one entry per distinct
\* key, its count the number of leads with the key and its percentage
\* count / n * 100, in non-increasing order of count.
C23_IsBreakdown(es, f) ==
    LET n == Len(leads)
        keys == {C23_KeyOf(leads[i], f) : i \in DOMAIN leads}
    IN  /\ Len(es) = Cardinality(keys)
        /\ {es[i].name : i \in DOMAIN es} = keys
        /\ \A i \in DOMAIN es :
              /\ es[i].count.t = "number"
              /\ es[i].count.n = Cardinality({j \in DOMAIN leads : C23_KeyOf(leads[j], f) = es[i].name})
              /\ es[i].percentage.den # 0
              /\ es[i].percentage.num * n = es[i].count.n * 100 * es[i].percentage.den
        /\ \A i, j \in DOMAIN es : i < j => es[i].count.n >= es[j].count.n

\* C23: the booked leads' breakdown by industry, and by lead_source, over
\* n > 0 leads has one {name, count, percentage} entry per distinct key, null
\* and empty-string keys both under "Unknown", counts that sum to n,
\* percentage = count / n * 100, entries in non-increasing order of count.
C23_BreakdownByKey ==
    (view = "booked" /\ leads # <<>>) =>
       \A o \in CompareOrders :
          /\ C23_IsBreakdown(analytics(o).industryData, "industry")
          /\ C23_IsBreakdown(analytics(o).sourceData, "lead_source")

\* A text with nothing but white space in it.
C24_Blank(s) == \A i \in DOMAIN s : s[i] \in WhiteSpace

\* C24: a submit of the Lead Generation form whose job title is empty after
\* trimming, or which has no company size selected, is rejected before any
\* network call: no webhook request is issued, loading stays false, the form
\* data are unchanged and only the error message is set (the job title's
\* message first, the company size's otherwise).
C24_InvalidSubmitRejected ==
    [][(/\ lastEvent'.kind = "submit"
        /\ C24_Blank(formData.jobTitle) \/ formData.companySize = <<>>) =>
           /\ webhook' = webhook
           /\ formLoading = FALSE /\ formLoading' = FALSE
           /\ formData' = formData
           /\ successMessage' = successMessage
           /\ formError' = IF C24_Blank(formData.jobTitle)
                           THEN Some("Job Title is required")
                           ELSE Some("Please select at least one company size")]_vars

\* A submit of a job title of one space, with a company size ticked, has just
\* been rejected.
C24_Witness ==
    /\ lastEvent.kind = "submit"
    /\ formData.jobTitle = <<32>>
    /\ formData.companySize # <<>>
    /\ formError = Some("Job Title is required")
    /\ ~formLoading
    /\ webhook = EmptyBag

\* C25: in every list view, after any sequence of fetches, successful
\* optimistic removals, searches, filter changes, sort changes and page
\* clicks, the current page stays within 1..max(1, totalPages): removing the
\* last lead of the last page never leaves the view on an empty page beyond
\* the range, with the pagination controls hidden.
C25_CurrentPageInRange ==
    view \in ListViews =>
       /\ currentPage >= 1
       /\ currentPage <= (IF TotalPages > 1 THEN TotalPages ELSE 1)

\* C26: from one client at most one update for a given lead id is in flight
\* at any time, counting the replied/booked toggles and the detail modal's
\* save: the toggles' in-flight gate also keeps a modal save for that lead
\* from being issued concurrently, and vice versa.
C26_OneUpdatePerLead ==
    \A r1, r2 \in updates : r1.lead = r2.lead => r1 = r2

\* The toggle r has answered and its completion is the step being taken.
C27_Completes(r) ==
    /\ r.kind = "toggle"
    /\ r.phase = "responded"
    /\ lastEvent'.kind \in {"toggle_ok", "toggle_err"}
    /\ lastEvent'.lead = r.lead
    /\ \A u \in updates' : u.rid # r.rid

\* The ids of the toggles among rs that succeeded.
C27_Succeeded(rs) == {r.lead : r \in {u \in rs : u.res = "ok"}}

\* C27: two toggles on different lead ids may be in flight together, and
\* whichever response is handled first, each completion removes only its own
\* id (from the collection on success, from updatingLeads always): the other
\* lead stays listed and in flight, and once the other completion has run too
\* the collection has lost exactly the leads whose toggle succeeded and the
\* in-flight set exactly the two ids.
C27_TogglesCommute ==
    [][\A r, r2 \in updates :
          (/\ C27_Completes(r)
           /\ r2.kind = "toggle" /\ r2.phase = "responded" /\ r2.lead # r.lead) =>
             /\ updatingLeads' = updatingLeads \ {r.lead}
             /\ r2.lead \in updatingLeads'
             /\ Ids(leads') = Ids(leads) \ C27_Succeeded({r})
             /\ LeadsAfterToggle(leads', r2.lead, r2.res) =
                   SelectSeq(leads, LAMBDA l : l.id \notin C27_Succeeded({r, r2}))
             /\ UpdatingAfterToggle(updatingLeads', r2.lead, r2.res) =
                   updatingLeads \ {r.lead, r2.lead}]_vars

\* Of two toggles in flight together, the one on lead 2 has succeeded and left
\* lead 1 listed, whose answer is waiting to be handled.
C27_Witness ==
    /\ lastEvent = Event("toggle_ok", 2)
    /\ Ids(leads) = {1}
    /\ updatingLeads = {1}
    /\ \E u \in updates : u.kind = "toggle" /\ u.lead = 1 /\ u.phase = "responded"

\* C28: in every list view loading is true exactly while a fetch of the view
\* is in flight, at most one fetch is outstanding at a time, also counting the
\* fetches started through the detail modal's onLeadUpdated callback.
C28_LoadingIffOneFetch ==
    /\ Cardinality(fetches) <= 1
    /\ loading <=> fetches # {}

\* The status views whose query selects the row.
C29_ViewsOf(row) == {v \in Views : ViewPredicate(v, row)}

\* C29: the membership predicates of the three status views are pairwise
\* disjoint: every lead of the repository is selected by at most one of the
\* Active, Replies and Booked queries, a lead with replied and booked both
\* true by the Booked query only, so the lists two views would fetch from the
\* same repository state share no lead.
C29_StatusViewsDisjoint ==
    /\ \A id \in DOMAIN server :
          /\ Cardinality(C29_ViewsOf(server[id])) <= 1
          /\ (server[id].replied /\ server[id].booked) => C29_ViewsOf(server[id]) = {"booked"}
    /\ \A v1, v2 \in Views :
          v1 # v2 =>
             \A d1 \in FetchResults(v1, server), d2 \in FetchResults(v2, server) :
                Ids(d1) \cap Ids(d2) = {}

\* Booked Meetings lists a lead that has replied and is booked, next to a
\* repository row that has replied and is not booked.
C29_Witness ==
    /\ view = "booked"
    /\ \E i \in DOMAIN leads : leads[i].replied /\ leads[i].booked
    /\ \E id \in DOMAIN server : server[id].replied /\ ~server[id].booked

\* C30: the lead detail modal never closes with unsaved edits unless the user
\* confirms: a modal shown in edit mode with changed fields goes away, or
\* loses its edits, only by Discard in the confirmation dialog or by a save
\* that the repository reported as successful.
C30_NoCloseWithUnsavedEdits ==
    [][(/\ ModalVisible
        /\ hasUnsavedChanges
        /\ ~ModalVisible' \/ ~hasUnsavedChanges') =>
           \/ showConfirmDiscardModal /\ lastEvent'.kind = "ui"
           \/ lastEvent'.kind = "save_ok"
           \/ ModalVisible' /\ lastEvent'.kind = "ui"]_vars

====
